---------------------------- MODULE Spec2Model ----------------------------
(***************************************************************************)
(* A state-machine model of the multi-variant Stockfish position layer     *)
(* (Position, StateInfo, move generation), of the UCI Option assignment    *)
(* and of the transposition table entry.                                   *)
(*                                                                         *)
(* Bitboards are modelled as sets of squares, castling-right masks as sets *)
(* of the single-right bits, Zobrist keys as sets of symbolic terms whose  *)
(* XOR is the symmetric difference, and the psq score as a formal sum.     *)
(***************************************************************************)
EXTENDS Integers, Naturals, Sequences, FiniteSets, TLC

VARIABLES pos, stack, snap, lastOp, undone, Options, optLog, TT, ttLog

vars == <<pos, stack, snap, lastOp, undone, Options, optLog, TT, ttLog>>

(***************************************************************************)
(* Bounds of the explored state space.                                     *)
(***************************************************************************)
MaxPly == 2

\* operations (moves made or taken back) in one run of the position
\* specification
MaxOps == 3

MaxRepPly == 8

MaxStores == 4

MaxSearches == 1

MaxSets == 2

NumThreads == 2

MaxRaceStores == 2

MaxThreshold == 1400

\* NUMA nodes of the machine, physical cores of a node or of the machine,
\* and worker threads that bind themselves
MaxNodes == 3

MaxCores == 4

MaxWorkers == 5

\* multiples of the evaluation grain on either side of zero
MaxGrain == 10

(***************************************************************************)
(* types.h: enumerations.                                                  *)
(***************************************************************************)
CHESS_VARIANT == 0

ANTI_VARIANT == 1

ATOMIC_VARIANT == 2

CRAZYHOUSE_VARIANT == 3

THREECHECK_VARIANT == 10

KOTH_VARIANT == 7

LOSERS_VARIANT == 8

RACE_VARIANT == 9

VARIANT_NB == 12

GIVEAWAY_VARIANT == 14

SUICIDE_VARIANT == 15

\* main_variant: a subvariant is played under the rules of its main variant
main_variant(v) ==
  IF v < VARIANT_NB THEN v
  ELSE CASE v = GIVEAWAY_VARIANT -> ANTI_VARIANT
         [] v = SUICIDE_VARIANT  -> ANTI_VARIANT
         [] OTHER                -> CHESS_VARIANT

WHITE == 0

BLACK == 1

NO_PIECE_TYPE == 0

PAWN == 1

KNIGHT == 2

BISHOP == 3

ROOK == 4

QUEEN == 5

KING == 6

ALL_PIECES == 0

NO_PIECE == 0

W_PAWN == 1

W_KNIGHT == 2

W_BISHOP == 3

W_ROOK == 4

W_QUEEN == 5

W_KING == 6

B_PAWN == 9

B_KNIGHT == 10

B_BISHOP == 11

B_ROOK == 12

B_QUEEN == 13

B_KING == 14

Pieces == {W_PAWN, W_KNIGHT, W_BISHOP, W_ROOK, W_QUEEN, W_KING,
           B_PAWN, B_KNIGHT, B_BISHOP, B_ROOK, B_QUEEN, B_KING}

WHITE_OO == 1

WHITE_OOO == 2

BLACK_OO == 4

BLACK_OOO == 8

KING_SIDE == {WHITE_OO, BLACK_OO}

QUEEN_SIDE == {WHITE_OOO, BLACK_OOO}

WHITE_CASTLING == {WHITE_OO, WHITE_OOO}

BLACK_CASTLING == {BLACK_OO, BLACK_OOO}

ANY_CASTLING == WHITE_CASTLING \cup BLACK_CASTLING

CHECKS_3 == 3

CHECKS_NB == 4

BOUND_NONE == 0

BOUND_UPPER == 1

BOUND_LOWER == 2

BOUND_EXACT == 3

VALUE_ZERO == 0

VALUE_DRAW == 0

Tempo == 28

VALUE_MATE == 32000

VALUE_INFINITE == 32001

VALUE_NONE == 32002

MAX_PLY == 246

DEPTH_NONE == -6

SQ_NONE == 64

NORTH == 8

EAST == 1

SOUTH == -NORTH

WEST == -EAST

MOVE_NONE == 0

MOVE_NULL == 65

NORMAL == 0

PROMOTION == 16384

ENPASSANT == 32768

CASTLING == 49152

SPECIAL == ENPASSANT

DROP == 4096

KING_PROMOTION == 8192

Squares == 0..63

Colors == {WHITE, BLACK}

SQ_A1 == 0

SQ_C1 == 2

SQ_D1 == 3

SQ_F1 == 5

SQ_G1 == 6

RANK_1 == 0

RANK_2 == 1

RANK_4 == 3

RANK_5 == 4

RANK_7 == 6

RANK_8 == 7

FILE_D == 3

FILE_E == 4

(***************************************************************************)
(* types.h: inline helpers.                                                *)
(***************************************************************************)
Flip(c) == 1 - c

FlipPiece(pc) == IF pc >= 8 THEN pc - 8 ELSE pc + 8

CastlingOf(c, cr) == (IF c = WHITE THEN WHITE_CASTLING ELSE BLACK_CASTLING) \cap cr

make_square(f, r) == r * 8 + f

make_piece(c, pt) == c * 8 + pt

type_of_piece(pc) == pc % 8

color_of(pc) == pc \div 8

file_of(s) == s % 8

rank_of(s) == s \div 8

relative_square(c, s) == IF c = WHITE THEN s ELSE make_square(file_of(s), 7 - rank_of(s))

relative_rank(c, r) == IF c = WHITE THEN r ELSE 7 - r

relative_rank_sq(c, s) == relative_rank(c, rank_of(s))

pawn_push(c) == IF c = WHITE THEN NORTH ELSE SOUTH

to_sq(m) == m % 64

type_of(m) ==
  IF (m \div 16384) * 16384 = SPECIAL /\ (m \div 4096) % 4 # 0
     /\ (m \div 4096) % 4 = 1
  THEN DROP
  ELSE IF (m \div 16384) * 16384 = SPECIAL /\ (m \div 4096) % 4 = 2
  THEN PROMOTION
  ELSE (m \div 16384) * 16384

from_sq(m) == IF type_of(m) = DROP THEN SQ_NONE ELSE (m \div 64) % 64

promotion_type(m) ==
  IF (m \div 16384) * 16384 = SPECIAL /\ (m \div 4096) % 4 = 2
  THEN KING
  ELSE ((m \div 4096) % 4) + KNIGHT

make_move(from, to) == from * 64 + to

make(T, from, to, pt) ==
  IF pt = KING
  THEN SPECIAL + KING_PROMOTION + from * 64 + to
  ELSE T + (pt - KNIGHT) * 4096 + from * 64 + to

make_drop(to, pc) == SPECIAL + DROP + pc * 64 + to

dropped_piece(m) == (m \div 64) % 16

(***************************************************************************)
(* Bitboard tables (bitboard.h is not part of the analysed sources; the    *)
(* tables follow the textbook definitions the documentation gives).        *)
(***************************************************************************)
OnBoard(f, r) == f \in 0..7 /\ r \in 0..7

StepTo(s, df, dr) ==
  IF OnBoard(file_of(s) + df, rank_of(s) + dr)
  THEN {make_square(file_of(s) + df, rank_of(s) + dr)}
  ELSE {}

KnightSteps == {<<1, 2>>, <<2, 1>>, <<2, -1>>, <<1, -2>>,
                <<-1, -2>>, <<-2, -1>>, <<-2, 1>>, <<-1, 2>>}

KingSteps == {<<0, 1>>, <<1, 1>>, <<1, 0>>, <<1, -1>>,
              <<0, -1>>, <<-1, -1>>, <<-1, 0>>, <<-1, 1>>}

KnightAttacks(s) == UNION {StepTo(s, d[1], d[2]) : d \in KnightSteps}

KingAttacks(s) == UNION {StepTo(s, d[1], d[2]) : d \in KingSteps}

PawnAttacks(c, s) ==
  StepTo(s, -1, IF c = WHITE THEN 1 ELSE -1) \cup StepTo(s, 1, IF c = WHITE THEN 1 ELSE -1)

Dirs == << <<0, 1>>, <<0, -1>>, <<1, 0>>, <<-1, 0>>,
           <<1, 1>>, <<1, -1>>, <<-1, 1>>, <<-1, -1>> >>

RookDirs == 1..4

BishopDirs == 5..8

OppositeDir == <<2, 1, 4, 3, 8, 7, 6, 5>>

\* the squares from file f, rank r in steps of (df, dr), nearest first
RayFrom(f, r, df, dr) ==
  [k \in 1..Cardinality({j \in 1..7 : OnBoard(f + j * df, r + j * dr)}) |->
     make_square(f + k * df, r + k * dr)]

\* the squares from s in direction d, nearest first
Rays(s, d) == RayFrom(s % 8, s \div 8, Dirs[d][1], Dirs[d][2])

Range(r) == {r[k] : k \in DOMAIN r}

RaySet(s, d) == Range(Rays(s, d))

RayAttack(r, occ) ==
  {r[i] : i \in {i \in DOMAIN r : \A j \in 1..(i - 1) : r[j] \notin occ}}

SlideAttacks(s, dirs, occ) == UNION {RayAttack(Rays(s, d), occ) : d \in dirs}

SliderDirs(pt) ==
  CASE pt = BISHOP -> BishopDirs
    [] pt = ROOK   -> RookDirs
    [] pt = QUEEN  -> 1..8
    [] OTHER       -> {}

attacks_bb(pt, s, occ) ==
  IF pt = KNIGHT THEN KnightAttacks(s)
  ELSE IF pt = KING THEN KingAttacks(s)
  ELSE SlideAttacks(s, SliderDirs(pt), occ)

pawn_attacks_bb(c, s) == PawnAttacks(c, s)

\* the squares of ray r before s2, when s2 is on r
BetweenOnRay(r, s2) ==
  {r[j] : j \in {j \in DOMAIN r : \E i \in (j + 1)..Len(r) : r[i] = s2}}

BetweenBB(s1, s2) == UNION {BetweenOnRay(Rays(s1, d), s2) : d \in 1..8}

LineThrough(s1, ray, opp, s2) == IF s2 \in ray THEN {s1} \cup ray \cup opp ELSE {}

LineBB(s1, s2) ==
  UNION {LineThrough(s1, RaySet(s1, d), RaySet(s1, OppositeDir[d]), s2) : d \in 1..8}

between_bb(s1, s2) == BetweenBB(s1, s2)

line_bb(s1, s2) == LineBB(s1, s2)

aligned(s1, s2, s3) == s3 \in LineBB(s1, s2)

adjacent_squares_bb(bb) == UNION {KingAttacks(s) : s \in bb}

lsb(bb) == CHOOSE s \in bb : \A t \in bb : s <= t

msb(bb) == CHOOSE s \in bb : \A t \in bb : s >= t

more_than_one(bb) == Cardinality(bb) > 1

Xor(a, b) == (a \ b) \cup (b \ a)

(***************************************************************************)
(* Zobrist keys (position.cpp, Position::init).  Every table entry is an   *)
(* independent random number; it is modelled by a symbolic term, a key by  *)
(* the set of the terms XOR-ed into it.  Zobrist::variant[CHESS_VARIANT]   *)
(* is 0, the empty set.                                                    *)
(***************************************************************************)
CrInt(cr) == (IF 1 \in cr THEN 1 ELSE 0) + (IF 2 \in cr THEN 2 ELSE 0)
             + (IF 4 \in cr THEN 4 ELSE 0) + (IF 8 \in cr THEN 8 ELSE 0)

Zobrist_psq(pc, s) == {<<"psq", pc, s>>}

Zobrist_enpassant(f) == {<<"enpassant", f, 0>>}

Zobrist_castling(cr) == {<<"castling", CrInt(cr), 0>>}

Zobrist_side == {<<"side", 0, 0>>}

Zobrist_noPawns == {<<"noPawns", 0, 0>>}

Zobrist_variant(v) == IF v = CHESS_VARIANT THEN {} ELSE {<<"variant", v, 0>>}

Zobrist_checks(c, n) == {<<"checks", c, n>>}

Zobrist_inHand(pc, n) == {<<"inHand", pc, n>>}

PawnValueMg == 124

KnightValueMg == 781

BishopValueMg == 825

RookValueMg == 1276

QueenValueMg == 2538

\* PieceValue[CHESS_VARIANT][MG][pc]
PieceValue(pc) ==
  CASE type_of_piece(pc) = PAWN   -> PawnValueMg
    [] type_of_piece(pc) = KNIGHT -> KnightValueMg
    [] type_of_piece(pc) = BISHOP -> BishopValueMg
    [] type_of_piece(pc) = ROOK   -> RookValueMg
    [] type_of_piece(pc) = QUEEN  -> QueenValueMg
    [] OTHER                      -> 0

(***************************************************************************)
(* position.h: the Position object and its inline accessors.  The psq      *)
(* score is the formal sum of PSQT::psq[pc][s] terms, a set of             *)
(* <<pc, s, multiplicity>>.                                                *)
(***************************************************************************)
St(p) == p.st[Len(p.st)]

SetSt(p, s) == [p EXCEPT !.st[Len(p.st)] = s]

pieces(p) == p.byTypeBB[ALL_PIECES]

pieces_pt(p, pt) == p.byTypeBB[pt]

pieces_pt2(p, pt1, pt2) == p.byTypeBB[pt1] \cup p.byTypeBB[pt2]

pieces_c(p, c) == p.byColorBB[c]

pieces_cpt(p, c, pt) == p.byColorBB[c] \cap p.byTypeBB[pt]

pieces_cpt2(p, c, pt1, pt2) == p.byColorBB[c] \cap (p.byTypeBB[pt1] \cup p.byTypeBB[pt2])

piece_on(p, s) == p.board[s]

empty(p, s) == p.board[s] = NO_PIECE

is_anti(p) == p.var = ANTI_VARIANT

is_atomic(p) == p.var = ATOMIC_VARIANT

is_house(p) == p.var = CRAZYHOUSE_VARIANT

is_three_check(p) == p.var = THREECHECK_VARIANT

square_king(p, c) == p.pieceList[make_piece(c, KING)][0]

count(p, c, pt) ==
  IF is_house(p) THEN p.pieceCount[make_piece(c, pt)] + p.pieceCountInHand[c][pt]
  ELSE p.pieceCount[make_piece(c, pt)]

count_in_hand(p, c, pt) == p.pieceCountInHand[c][pt]

is_promoted(p, s) == s \in p.promotedPieces

ep_square(p) == St(p).epSquare

checkers(p) == St(p).checkersBB

blockers_for_king(p, c) == St(p).blockersForKing[c]

check_squares(p, pt) == St(p).checkSquares[pt]

can_castle(p, cr) == St(p).castlingRights \cap cr # {}

castling_impeded(p, cr) == pieces(p) \cap p.castlingPath[cr] # {}

castling_rook_square(p, cr) == p.castlingRookSquare[cr]

PsqAdd(q, pc, s, d) ==
  LET cur == {t \in q : t[1] = pc /\ t[2] = s}
      n == IF cur = {} THEN 0 ELSE (CHOOSE t \in cur : TRUE)[3]
  IN (q \ cur) \cup (IF n + d = 0 THEN {} ELSE {<<pc, s, n + d>>})

put_piece(p, pc, s) ==
  [p EXCEPT
     !.board[s] = pc,
     !.byTypeBB = [@ EXCEPT ![type_of_piece(pc)] = @ \cup {s},
                            ![ALL_PIECES] = @ \cup p.byTypeBB[type_of_piece(pc)] \cup {s}],
     !.byColorBB[color_of(pc)] = @ \cup {s},
     !.index[s] = p.pieceCount[pc],
     !.pieceList[pc][p.pieceCount[pc]] = s,
     !.pieceCount = [@ EXCEPT ![pc] = @ + 1,
                              ![make_piece(color_of(pc), ALL_PIECES)] = @ + 1],
     !.psq = PsqAdd(@, pc, s, 1)]

remove_piece(p, s) ==
  LET pc == p.board[s]
      cnt == p.pieceCount[pc] - 1
      lastSquare == p.pieceList[pc][cnt]
      idx == [p.index EXCEPT ![lastSquare] = p.index[s]]
  IN [p EXCEPT
        !.byTypeBB = [@ EXCEPT ![ALL_PIECES] = Xor(@, {s}),
                               ![type_of_piece(pc)] = Xor(@, {s})],
        !.byColorBB[color_of(pc)] = Xor(@, {s}),
        !.board[s] = IF is_atomic(p) THEN NO_PIECE ELSE @,
        !.index = idx,
        !.pieceList[pc] = [@ EXCEPT ![idx[lastSquare]] = lastSquare, ![cnt] = SQ_NONE],
        !.pieceCount = [@ EXCEPT ![pc] = @ - 1,
                                 ![make_piece(color_of(pc), ALL_PIECES)] = @ - 1],
        !.psq = PsqAdd(@, pc, s, -1)]

\* move_piece without the update of index[to]
MovePieceStaleIndex(p, from, to) ==
  LET pc == p.board[from]
      fromTo == {from, to}
  IN [p EXCEPT
        !.byTypeBB = [@ EXCEPT ![ALL_PIECES] = Xor(@, fromTo),
                               ![type_of_piece(pc)] = Xor(@, fromTo)],
        !.byColorBB[color_of(pc)] = Xor(@, fromTo),
        !.board = [@ EXCEPT ![from] = NO_PIECE, ![to] = pc],
        !.pieceList[pc][p.index[from]] = to,
        !.psq = PsqAdd(PsqAdd(@, pc, to, 1), pc, from, -1)]

move_piece(p, from, to) ==
  LET pc == p.board[from]
      fromTo == {from, to}
  IN [p EXCEPT
        !.byTypeBB = [@ EXCEPT ![ALL_PIECES] = Xor(@, fromTo),
                               ![type_of_piece(pc)] = Xor(@, fromTo)],
        !.byColorBB[color_of(pc)] = Xor(@, fromTo),
        !.board = [@ EXCEPT ![from] = NO_PIECE, ![to] = pc],
        !.index[to] = p.index[from],
        !.pieceList[pc][p.index[from]] = to,
        !.psq = PsqAdd(PsqAdd(@, pc, to, 1), pc, from, -1)]

add_to_hand(p, c, pt) ==
  [p EXCEPT !.pieceCountInHand[c] = [@ EXCEPT ![pt] = @ + 1, ![ALL_PIECES] = @ + 1],
            !.psq = PsqAdd(@, make_piece(c, pt), SQ_NONE, 1)]

remove_from_hand(p, c, pt) ==
  [p EXCEPT !.pieceCountInHand[c] = [@ EXCEPT ![pt] = @ - 1, ![ALL_PIECES] = @ - 1],
            !.psq = PsqAdd(@, make_piece(c, pt), SQ_NONE, -1)]

drop_piece(p, pc, s) ==
  remove_from_hand(put_piece(p, pc, s), color_of(pc), type_of_piece(pc))

undrop_piece(p, pc, s) ==
  add_to_hand([remove_piece(p, s) EXCEPT !.board[s] = NO_PIECE],
              color_of(pc), type_of_piece(pc))

(***************************************************************************)
(* Character strings are sequences of one-character strings, so that the   *)
(* conversions between text and numbers are computed, not assumed.         *)
(***************************************************************************)
DigitChars == <<"0", "1", "2", "3", "4", "5", "6", "7", "8", "9">>

Digits == {DigitChars[i] : i \in 1..10}

DigitVal(ch) == (CHOOSE i \in 1..10 : DigitChars[i] = ch) - 1

RECURSIVE StoiDigits(_, _)
StoiDigits(v, acc) ==
  IF v = <<>> \/ Head(v) \notin Digits THEN acc
  ELSE StoiDigits(Tail(v), acc * 10 + DigitVal(Head(v)))

stoi(v) ==
  IF v # <<>> /\ Head(v) = "-" THEN -StoiDigits(Tail(v), 0)
  ELSE IF v # <<>> /\ Head(v) = "+" THEN StoiDigits(Tail(v), 0)
  ELSE StoiDigits(v, 0)

RECURSIVE NatToString(_)
NatToString(n) ==
  IF n < 10 THEN <<DigitChars[n + 1]>>
  ELSE NatToString(n \div 10) \o <<DigitChars[(n % 10) + 1]>>

to_string(n) == IF n < 0 THEN <<"-">> \o NatToString(-n) ELSE NatToString(n)

(***************************************************************************)
(* ucioption.cpp: Option constructors and Option::operator=.               *)
(***************************************************************************)
StrTrue == <<"t", "r", "u", "e">>

StrFalse == <<"f", "a", "l", "s", "e">>

StrEmptyPath == <<"<", "e", "m", "p", "t", "y", ">">>

OptionString(v, f) ==
  [type |-> "string", defaultValue |-> v, currentValue |-> v,
   min |-> 0, max |-> 0, on_change |-> f]

OptionCheck(v, f) ==
  [type |-> "check", defaultValue |-> IF v THEN StrTrue ELSE StrFalse,
   currentValue |-> IF v THEN StrTrue ELSE StrFalse,
   min |-> 0, max |-> 0, on_change |-> f]

OptionButton(f) ==
  [type |-> "button", defaultValue |-> <<>>, currentValue |-> <<>>,
   min |-> 0, max |-> 0, on_change |-> f]

OptionSpin(v, minv, maxv, f) ==
  [type |-> "spin", defaultValue |-> to_string(v), currentValue |-> to_string(v),
   min |-> minv, max |-> maxv, on_change |-> f]

\* The assignment that clamps an out-of-range spin value to the nearest limit.
OptionAssignClamped(o, v) ==
  IF (o.type # "button" /\ v = <<>>)
     \/ (o.type = "check" /\ v # StrTrue /\ v # StrFalse)
  THEN [opt |-> o, fired |-> FALSE]
  ELSE [opt |-> IF o.type = "spin" /\ stoi(v) < o.min
                  THEN [o EXCEPT !.currentValue = to_string(o.min)]
                ELSE IF o.type = "spin" /\ stoi(v) > o.max
                  THEN [o EXCEPT !.currentValue = to_string(o.max)]
                ELSE IF o.type # "button" THEN [o EXCEPT !.currentValue = v]
                ELSE o,
        fired |-> o.on_change]

\* The assignment that takes any text for a check option.
OptionAssignAnyCheck(o, v) ==
  IF (o.type # "button" /\ v = <<>>)
     \/ (o.type = "spin" /\ (stoi(v) < o.min \/ stoi(v) > o.max))
  THEN [opt |-> o, fired |-> FALSE]
  ELSE [opt |-> IF o.type # "button" THEN [o EXCEPT !.currentValue = v] ELSE o,
        fired |-> o.on_change]

\* Option::operator=(const string& v): the option after the assignment and
\* whether the on_change action was triggered.
OptionAssign(o, v) ==
  IF (o.type # "button" /\ v = <<>>)
     \/ (o.type = "check" /\ v # StrTrue /\ v # StrFalse)
     \/ (o.type = "spin" /\ (stoi(v) < o.min \/ stoi(v) > o.max))
  THEN [opt |-> o, fired |-> FALSE]
  ELSE [opt |-> IF o.type # "button" THEN [o EXCEPT !.currentValue = v] ELSE o,
        fired |-> o.on_change]

\* UCI::init: a selection of the engine's options.
OptionNames ==
  {"Write Debug Log", "Contempt", "Min Split Depth", "Ponder", "Clear Hash",
   "SyzygyPath"}

InitOptions ==
  [n \in OptionNames |->
     CASE n = "Write Debug Log" -> OptionCheck(FALSE, TRUE)
       [] n = "Contempt"        -> OptionSpin(0, -100, 100, FALSE)
       [] n = "Min Split Depth" -> OptionSpin(5, 0, 12, TRUE)
       [] n = "Ponder"          -> OptionCheck(TRUE, FALSE)
       [] n = "Clear Hash"      -> OptionButton(TRUE)
       [] OTHER                 -> OptionString(StrEmptyPath, TRUE)]

\* The texts a GUI or a console user may send as an option value.
OptionInputs ==
  {<<>>, StrTrue, StrFalse, <<"7">>, <<"1", "2">>, <<"1", "3">>,
   <<"1", "0", "1">>, <<"-", "1">>, <<"-", "1", "0", "1">>, <<"/", "t", "b">>}

IsNumber(v) ==
  /\ v # <<>>
  /\ \/ \A i \in 1..Len(v) : v[i] \in Digits
     \/ Len(v) > 1 /\ v[1] = "-" /\ \A i \in 2..Len(v) : v[i] \in Digits

NoOptLog == [name |-> "", v |-> <<>>, before |-> OptionButton(FALSE), fired |-> FALSE]

\* setoption name <name> value <v>.  A spin option is only ever sent text
\* that stoi() can convert (anything else throws in the program).
SetOption ==
  \E n \in OptionNames, v \in OptionInputs :
    /\ Options[n].type = "spin" => (v = <<>> \/ IsNumber(v))
    /\ Options[n].type = "string" => ~IsNumber(v)
    /\ Options' = [Options EXCEPT ![n] = OptionAssign(Options[n], v).opt]
    /\ optLog' = [name |-> n, v |-> v, before |-> Options[n],
                  fired |-> OptionAssign(Options[n], v).fired]
    /\ UNCHANGED <<pos, stack, snap, lastOp, undone, TT, ttLog>>

(***************************************************************************)
(* tt.h: TTEntry and TranspositionTable.  A 64-bit Key is the pair of its  *)
(* highest 16 bits and its lowest 32 bits, the only parts the table reads. *)
(***************************************************************************)
ClusterSize == 3

U8(x) == x % 256

U16(x) == x % 65536

I16(x) == ((x + 32768) % 65536) - 32768

EmptyEntry ==
  [key16 |-> 0, genBound8 |-> 0, depth8 |-> 0, move16 |-> 0,
   value16 |-> 0, evalValue16 |-> 0]

\* bitwise OR of two 2-bit numbers
Or2(a, b) ==
  (IF a % 2 = 1 \/ b % 2 = 1 THEN 1 ELSE 0)
    + 2 * (IF a \div 2 = 1 \/ b \div 2 = 1 THEN 1 ELSE 0)

TTEntry_bound(e) == e.genBound8 % 4

\* depth() without the DEPTH_NONE offset
TTEntry_depth_raw(e) == e.depth8

TTEntry_depth(e) == e.depth8 + DEPTH_NONE

TTEntry_move(e) == e.move16

TTEntry_value(e) == e.value16

TTEntry_eval_value(e) == e.evalValue16

\* TTEntry::save that leaves the key of the entry as it was cleared
TTEntry_saveNoKey(k, v, b, d, m, g, ev) ==
  [key16 |-> 0,
   genBound8 |-> U8((g \div 4) * 4 + Or2(g % 4, b)),
   depth8 |-> U8(d - DEPTH_NONE),
   move16 |-> U16(m),
   value16 |-> I16(v),
   evalValue16 |-> I16(ev)]

TTEntry_save(k, v, b, d, m, g, ev) ==
  [key16 |-> k,
   genBound8 |-> U8((g \div 4) * 4 + Or2(g % 4, b)),
   depth8 |-> U8(d - DEPTH_NONE),
   move16 |-> U16(m),
   value16 |-> I16(v),
   evalValue16 |-> I16(ev)]

\* new_search that counts the generation in steps of one
new_search_by_one(t) == [t EXCEPT !.generation = U8(@ + 1)]

new_search(t) == [t EXCEPT !.generation = U8(@ + 4)]

RECURSIVE BitAnd(_, _)
BitAnd(a, b) ==
  IF a = 0 \/ b = 0 THEN 0
  ELSE (IF a % 2 = 1 /\ b % 2 = 1 THEN 1 ELSE 0) + 2 * BitAnd(a \div 2, b \div 2)

\* Index in table[] of the first entry of the key's cluster.
first_entry(t, key) == BitAnd(key.lo, t.hashMask)

\* TranspositionTable::clear zeroes the table.
TT_clear(t) ==
  [t EXCEPT !.table = [i \in 0..(t.hashMask + ClusterSize - 1) |-> EmptyEntry]]

\* Age of an entry: distance of its generation from the current one.
AgeDiff(t, e) == ((256 + t.generation - ((e.genBound8 \div 4) * 4)) % 256) \div 4

ReplaceScore(t, e) == e.depth8 - AgeDiff(t, e) * 2

\* Entry of the cluster that store() writes: an empty entry or the entry of
\* the same position if there is one, else the least valuable entry.
StoreSlot(t, key) ==
  LET f == first_entry(t, key)
      cl == f..(f + ClusterSize - 1)
      free == {i \in cl : t.table[i].key16 = 0 \/ t.table[i].key16 = key.hi}
  IN IF free # {} THEN CHOOSE i \in free : \A j \in free : i <= j
     ELSE CHOOSE i \in cl :
            \A j \in cl :
               \/ ReplaceScore(t, t.table[i]) < ReplaceScore(t, t.table[j])
               \/ ReplaceScore(t, t.table[i]) = ReplaceScore(t, t.table[j]) /\ i <= j

TT_store(t, key, v, b, d, m, ev) ==
  [t EXCEPT !.table[StoreSlot(t, key)] =
              TTEntry_save(key.hi, v, b, d, m, t.generation, ev)]

\* probe(): the first entry of the cluster whose 16-bit key matches.
TT_probe(t, key) ==
  LET f == first_entry(t, key)
      hit == {i \in f..(f + ClusterSize - 1) : t.table[i].key16 = key.hi}
  IN IF hit = {} THEN [found |-> FALSE, entry |-> EmptyEntry]
     ELSE [found |-> TRUE, entry |-> t.table[CHOOSE i \in hit : \A j \in hit : i <= j]]

HashMask == 4

\* The table after resize() and clear(), in its first search or after 63
\* earlier searches.
InitTT(g) == TT_clear([hashMask |-> HashMask, generation |-> g, table |-> <<>>])

\* Keys: four different high parts in one cluster, and one key of the other.
KeyInputs == {[hi |-> h, lo |-> 2] : h \in {0, 1, 2, 65535}} \cup {[hi |-> 1, lo |-> 5]}

\* Values, bounds, depths, moves and static evaluations a search may store.
StoreInputs ==
  {[v |-> -VALUE_MATE, b |-> BOUND_UPPER, d |-> DEPTH_NONE, m |-> MOVE_NONE,
    ev |-> VALUE_NONE],
   [v |-> VALUE_MATE - 3, b |-> BOUND_EXACT, d |-> MAX_PLY - 1,
    m |-> make(PROMOTION, 52, 60, QUEEN), ev |-> -VALUE_INFINITE],
   [v |-> -25, b |-> BOUND_LOWER, d |-> -1, m |-> make(CASTLING, 4, 7, KNIGHT),
    ev |-> 17]}

NoTTLog ==
  [op |-> "none", key |-> [hi |-> 0, lo |-> 0], in |-> CHOOSE x \in StoreInputs : TRUE,
   gen |-> 0, found |-> FALSE, entry |-> EmptyEntry, stores |-> 0, searches |-> 0]

\* TT.store(key, v, b, d, m, ev)
Store ==
  \E key \in KeyInputs, x \in StoreInputs :
    /\ ttLog.stores < MaxStores
    /\ TT' = TT_store(TT, key, x.v, x.b, x.d, x.m, x.ev)
    /\ ttLog' = [ttLog EXCEPT !.op = "store", !.key = key, !.in = x,
                              !.gen = TT.generation, !.stores = @ + 1]
    /\ UNCHANGED <<pos, stack, snap, lastOp, undone, Options, optLog>>

\* TT.probe(key) right after a store of the same key
Probe ==
  /\ ttLog.op = "store"
  /\ ttLog' = [ttLog EXCEPT !.op = "probe", !.found = TT_probe(TT, ttLog.key).found,
                            !.entry = TT_probe(TT, ttLog.key).entry]
  /\ UNCHANGED <<pos, stack, snap, lastOp, undone, Options, optLog, TT>>

\* TT.new_search()
NewSearch ==
  /\ ttLog.searches < MaxSearches
  /\ TT' = new_search(TT)
  /\ ttLog' = [ttLog EXCEPT !.op = "new_search", !.searches = @ + 1]
  /\ UNCHANGED <<pos, stack, snap, lastOp, undone, Options, optLog>>

\* TT.clear()
Clear ==
  /\ TT' = TT_clear(TT)
  /\ ttLog' = [ttLog EXCEPT !.op = "clear"]
  /\ UNCHANGED <<pos, stack, snap, lastOp, undone, Options, optLog>>

(***************************************************************************)
(* position.cpp: the state a Position and a StateInfo have after memset 0, *)
(* and the helpers of Position::set.                                       *)
(***************************************************************************)
ZeroStateInfo ==
  [pawnKey |-> {}, materialKey |-> {}, nonPawnMaterial |-> [c \in Colors |-> 0],
   castlingRights |-> {}, rule50 |-> 0, pliesFromNull |-> 0,
   checksGiven |-> [c \in Colors |-> 0], epSquare |-> SQ_A1,
   key |-> {}, checkersBB |-> {}, capturedPiece |-> NO_PIECE,
   blastByTypeBB |-> [pt \in 0..7 |-> {}], blastByColorBB |-> [c \in Colors |-> {}],
   capturedpromoted |-> FALSE,
   blockersForKing |-> [c \in Colors |-> {}], pinners |-> [c \in Colors |-> {}],
   checkSquares |-> [pt \in 0..7 |-> {}], repetition |-> 0]

ZeroPosition(v, si) ==
  [board |-> [s \in Squares |-> NO_PIECE],
   byTypeBB |-> [pt \in 0..7 |-> {}],
   byColorBB |-> [c \in Colors |-> {}],
   pieceCount |-> [pc \in 0..15 |-> 0],
   pieceList |-> [pc \in 0..15 |-> [i \in 0..15 |-> SQ_NONE]],
   pieceCountInHand |-> [c \in Colors |-> [pt \in 0..7 |-> 0]],
   promotedPieces |-> {},
   index |-> [s \in Squares |-> 0],
   castlingRightsMask |-> [s \in Squares |-> {}],
   castlingRookSquare |-> [cr \in 0..15 |-> SQ_A1],
   castlingPath |-> [cr \in 0..15 |-> {}],
   gamePly |-> 0, sideToMove |-> WHITE, psq |-> {}, chess960 |-> FALSE,
   var |-> main_variant(v), subvar |-> v, st |-> <<si>>]

CastlingKingTo(c, cr) == relative_square(c, IF cr \cap KING_SIDE # {} THEN SQ_G1 ELSE SQ_C1)

CastlingRookTo(c, cr) == relative_square(c, IF cr \cap KING_SIDE # {} THEN SQ_F1 ELSE SQ_D1)

SetCastlingRightOf(p, cr, kfrom, rfrom, kto, rto) ==
  [SetSt(p, [St(p) EXCEPT !.castlingRights = @ \cup cr]) EXCEPT
     !.castlingRightsMask = [@ EXCEPT ![kfrom] = @ \cup cr, ![rfrom] = @ \cup cr],
     !.castlingRookSquare[CrInt(cr)] = rfrom,
     !.castlingPath[CrInt(cr)] =
        (between_bb(rfrom, rto) \cup between_bb(kfrom, kto) \cup {rto, kto})
          \ {kfrom, rfrom}]

SetCastlingRightCr(p, c, cr, kfrom, rfrom) ==
  SetCastlingRightOf(p, cr, kfrom, rfrom, CastlingKingTo(c, cr), CastlingRookTo(c, cr))

set_castling_right(p, c, kfrom, rfrom) ==
  SetCastlingRightCr(p, c, CastlingOf(c, IF kfrom < rfrom THEN KING_SIDE ELSE QUEEN_SIDE),
                     kfrom, rfrom)

\* the snipers of slider_blockers: sliders that attack s on an empty board
Snipers(p, sliders, s) ==
  ((attacks_bb(ROOK, s, {}) \cap pieces_pt2(p, QUEEN, ROOK))
     \cup (attacks_bb(BISHOP, s, {}) \cap pieces_pt2(p, QUEEN, BISHOP)))
    \cap sliders

\* the snipers with exactly one piece between them and s
SniperHits(s, snipers, occupancy) ==
  {sn \in snipers : Cardinality(between_bb(s, sn) \cap occupancy) = 1}

SliderBlockersHit(p, s, occupancy, hit) ==
  [blockers |-> UNION {between_bb(s, sn) \cap occupancy : sn \in hit},
   pinners |-> {sn \in hit :
                  (between_bb(s, sn) \cap occupancy)
                    \cap pieces_c(p, color_of(piece_on(p, s))) # {}}]

SliderBlockersOcc(p, s, snipers, occupancy) ==
  SliderBlockersHit(p, s, occupancy, SniperHits(s, snipers, occupancy))

SliderBlockersSn(p, s, snipers) ==
  SliderBlockersOcc(p, s, snipers, Xor(pieces(p), snipers))

\* slider_blockers(sliders, s, pinners): the blockers and the pinners
slider_blockers(p, sliders, s) == SliderBlockersSn(p, s, Snipers(p, sliders, s))

attackers_to_occ(p, s, occupied) ==
  (pawn_attacks_bb(BLACK, s) \cap pieces_cpt(p, WHITE, PAWN))
    \cup (pawn_attacks_bb(WHITE, s) \cap pieces_cpt(p, BLACK, PAWN))
    \cup (attacks_bb(KNIGHT, s, {}) \cap pieces_pt(p, KNIGHT))
    \cup (attacks_bb(ROOK, s, occupied) \cap pieces_pt2(p, ROOK, QUEEN))
    \cup (attacks_bb(BISHOP, s, occupied) \cap pieces_pt2(p, BISHOP, QUEEN))
    \cup (attacks_bb(KING, s, {}) \cap pieces_pt(p, KING))

attackers_to(p, s) == attackers_to_occ(p, s, pieces(p))

slider_attackers_to_occ(p, s, occupied) ==
  (attacks_bb(ROOK, s, occupied) \cap pieces_pt2(p, ROOK, QUEEN))
    \cup (attacks_bb(BISHOP, s, occupied) \cap pieces_pt2(p, BISHOP, QUEEN))

slider_attackers_to(p, s) == slider_attackers_to_occ(p, s, pieces(p))

kings_adjacent(p) == adjacent_squares_bb(p.byTypeBB[KING]) \cap p.byTypeBB[KING] # {}

is_atomic_win(p) == count(p, Flip(p.sideToMove), KING) = 0

is_atomic_loss(p) == count(p, p.sideToMove, KING) = 0

is_anti_loss(p) == count(p, Flip(p.sideToMove), ALL_PIECES) = 0

is_anti_win(p) == count(p, p.sideToMove, ALL_PIECES) = 0

is_three_check_win(p) == St(p).checksGiven[p.sideToMove] = CHECKS_3

\* a third check that does not end the game
NoThreeCheckLoss(p) == FALSE

is_three_check_loss(p) == St(p).checksGiven[Flip(p.sideToMove)] = CHECKS_3

is_koth(p) == p.var = KOTH_VARIANT

InCentre(ksq) ==
  /\ rank_of(ksq) = RANK_4 \/ rank_of(ksq) = RANK_5
  /\ file_of(ksq) = FILE_D \/ file_of(ksq) = FILE_E

is_koth_win(p) == InCentre(square_king(p, p.sideToMove))

is_koth_loss(p) == InCentre(square_king(p, Flip(p.sideToMove)))

is_race(p) == p.var = RACE_VARIANT

is_race_win(p) ==
  /\ rank_of(square_king(p, p.sideToMove)) = RANK_8
  /\ rank_of(square_king(p, Flip(p.sideToMove))) < RANK_8

is_race_draw(p) ==
  /\ rank_of(square_king(p, p.sideToMove)) = RANK_8
  /\ rank_of(square_king(p, Flip(p.sideToMove))) = RANK_8

\* the squares of the eighth rank the king of the side to move can step to
RaceEscapes(p, us) ==
  {s \in attacks_bb(KING, square_king(p, us), {}) :
     rank_of(s) = RANK_8 /\ s \notin pieces_c(p, us)}

is_race_loss(p) ==
  IF rank_of(square_king(p, Flip(p.sideToMove))) # RANK_8 THEN FALSE
  ELSE IF rank_of(square_king(p, p.sideToMove))
            < (IF p.sideToMove = WHITE THEN RANK_8 ELSE RANK_7) THEN TRUE
  ELSE \A s \in RaceEscapes(p, p.sideToMove) :
         attackers_to(p, s) \cap pieces_c(p, Flip(p.sideToMove)) # {}

is_variant_end(p) ==
  CASE p.var = ANTI_VARIANT       -> is_anti_win(p) \/ is_anti_loss(p)
    [] p.var = ATOMIC_VARIANT     -> is_atomic_win(p) \/ is_atomic_loss(p)
    [] p.var = KOTH_VARIANT       -> is_koth_win(p) \/ is_koth_loss(p)
    [] p.var = RACE_VARIANT       -> is_race_draw(p) \/ is_race_win(p) \/ is_race_loss(p)
    [] p.var = THREECHECK_VARIANT -> is_three_check_win(p) \/ is_three_check_loss(p)
    [] OTHER                      -> FALSE

\* mate_in, mated_in (types.h)
mate_in(ply) == VALUE_MATE - ply

mated_in(ply) == -VALUE_MATE + ply

\* a value returned normally, and the outcome of running into assert(false):
\* the build with assertions aborts, the build without them returns VALUE_ZERO
Returned(v) == [assert |-> FALSE, value |-> v]

AssertFalse == [assert |-> TRUE, value |-> VALUE_ZERO]

\* a variant_result that scores every terminal position as a win
WinLossAsWin(win, loss, ply) ==
  IF win \/ loss THEN Returned(mate_in(ply)) ELSE AssertFalse

WinLoss(win, loss, ply) ==
  IF win THEN Returned(mate_in(ply))
  ELSE IF loss THEN Returned(mated_in(ply))
  ELSE AssertFalse

variant_result(p, ply, draw_value) ==
  CASE p.var = ANTI_VARIANT       -> WinLoss(is_anti_win(p), is_anti_loss(p), ply)
    [] p.var = ATOMIC_VARIANT     -> WinLoss(is_atomic_win(p), is_atomic_loss(p), ply)
    [] p.var = KOTH_VARIANT       -> WinLoss(is_koth_win(p), is_koth_loss(p), ply)
    [] p.var = RACE_VARIANT       ->
         IF is_race_draw(p) THEN Returned(draw_value)
         ELSE WinLoss(is_race_win(p), is_race_loss(p), ply)
    [] p.var = THREECHECK_VARIANT ->
         WinLoss(is_three_check_win(p), is_three_check_loss(p), ply)
    [] OTHER                      -> AssertFalse

\* a stalemate_value that scores every stalemate as a draw
StalemateAsDraw(p, ply, drawValue) == drawValue

stalemate_value(p, ply, drawValue) ==
  IF is_anti(p)
  THEN IF p.subvar = SUICIDE_VARIANT
       THEN IF count(p, p.sideToMove, ALL_PIECES) > count(p, Flip(p.sideToMove), ALL_PIECES)
            THEN mated_in(ply)
            ELSE IF count(p, p.sideToMove, ALL_PIECES) < count(p, Flip(p.sideToMove), ALL_PIECES)
            THEN mate_in(ply)
            ELSE drawValue
       ELSE mate_in(ply)
  ELSE IF p.var = LOSERS_VARIANT THEN mate_in(ply)
  ELSE drawValue

NoCheckSquares == [pt \in 0..7 |-> {}]

NoKingInfo(p) == is_anti(p) \/ (is_atomic(p) /\ (is_atomic_loss(p) \/ kings_adjacent(p)))

SetBlockers(si, none, sbW, sbB) ==
  IF none
  THEN [si EXCEPT !.blockersForKing = [c \in Colors |-> {}],
                  !.pinners = [c \in Colors |-> {}]]
  ELSE [si EXCEPT
          !.blockersForKing = [c \in Colors |->
             IF c = WHITE THEN sbW.blockers ELSE sbB.blockers],
          !.pinners = [c \in Colors |->
             IF c = BLACK THEN sbW.pinners ELSE sbB.pinners]]

CheckSquaresOf(old, pawn, knight, bishop, rook) ==
  [pt \in 0..7 |->
     CASE pt = PAWN   -> pawn
       [] pt = KNIGHT -> knight
       [] pt = BISHOP -> bishop
       [] pt = ROOK   -> rook
       [] pt = QUEEN  -> bishop \cup rook
       [] pt = KING   -> {}
       [] OTHER       -> old[pt]]

SetCheckSquares(p, si, ksq) ==
  [si EXCEPT !.checkSquares =
     IF is_anti(p) \/ (is_atomic(p) /\ ksq = SQ_NONE)
     THEN CheckSquaresOf(@, {}, {}, {}, {})
     ELSE CheckSquaresOf(@, pawn_attacks_bb(Flip(p.sideToMove), ksq),
                         attacks_bb(KNIGHT, ksq, {}),
                         attacks_bb(BISHOP, ksq, pieces(p)),
                         attacks_bb(ROOK, ksq, pieces(p)))]

\* set_check_info(si) applied to the current StateInfo
set_check_info(p) ==
  SetSt(p, SetCheckSquares(p,
             SetBlockers(St(p), NoKingInfo(p),
                         slider_blockers(p, pieces_c(p, BLACK), square_king(p, WHITE)),
                         slider_blockers(p, pieces_c(p, WHITE), square_king(p, BLACK))),
             square_king(p, Flip(p.sideToMove))))

RECURSIVE XorAll(_)
XorAll(S) ==
  IF S = {} THEN {}
  ELSE LET x == CHOOSE x \in S : TRUE IN Xor(x, XorAll(S \ {x}))

RECURSIVE SumAll(_, _)
SumAll(f, S) ==
  IF S = {} THEN 0
  ELSE LET x == CHOOSE x \in S : TRUE IN f[x] + SumAll(f, S \ {x})

\* si->nonPawnMaterial[c] of set_state
NonPawnMaterialOf(q, c) ==
  SumAll([s \in Squares |-> PieceValue(piece_on(q, s))],
         {s \in pieces(q) : color_of(piece_on(q, s)) = c
                            /\ type_of_piece(piece_on(q, s)) \notin {PAWN, KING}})
    + (IF is_house(q)
       THEN SumAll([pt \in 0..7 |->
                      q.pieceCountInHand[c][pt] * PieceValue(make_piece(c, pt))],
                   {KNIGHT, BISHOP, ROOK, QUEEN})
       ELSE 0)

\* si->key of set_state
KeyOf(q, si) ==
  XorAll({Zobrist_variant(q.var)}
    \cup {Zobrist_psq(piece_on(q, s), s) : s \in pieces(q)}
    \cup (IF si.epSquare # SQ_NONE
          THEN {Zobrist_enpassant(file_of(si.epSquare))} ELSE {})
    \cup (IF q.sideToMove = BLACK THEN {Zobrist_side} ELSE {})
    \cup {Zobrist_castling(si.castlingRights)}
    \cup (IF is_house(q)
          THEN {Zobrist_inHand(pc,
                  q.pieceCountInHand[color_of(pc)][type_of_piece(pc)]) :
                    pc \in Pieces}
          ELSE {})
    \cup (IF is_three_check(q)
          THEN {Zobrist_checks(c, si.checksGiven[c]) : c \in Colors}
          ELSE {}))

\* si->checkersBB of set_state
CheckersOf(q) ==
  IF NoKingInfo(q)
  THEN {}
  ELSE attackers_to(q, square_king(q, q.sideToMove)) \cap pieces_c(q, Flip(q.sideToMove))

SetStateFields(q, si) ==
  [si EXCEPT
     !.key = KeyOf(q, si),
     !.materialKey = XorAll({Zobrist_variant(q.var)}
                       \cup UNION {{Zobrist_psq(pc, cnt) :
                                      cnt \in 0..(q.pieceCount[pc] - 1)} :
                                    pc \in Pieces}),
     !.pawnKey = XorAll({Zobrist_noPawns}
                   \cup {Zobrist_psq(piece_on(q, s), s) :
                           s \in {t \in pieces(q) : type_of_piece(piece_on(q, t)) = PAWN}}),
     !.nonPawnMaterial = [c \in Colors |-> NonPawnMaterialOf(q, c)],
     !.checkersBB = CheckersOf(q)]

SetStateChecked(q) == SetStateFields(q, St(q))

\* set_state(si): the keys and the material computed from scratch
set_state_of(p) == SetStateChecked(set_check_info(p))

set_state(p) == SetSt(p, set_state_of(p))

(***************************************************************************)
(* position.cpp, Position::set: the FEN text is read through a character   *)
(* stream.  The parser state is the record of the Position being filled,   *)
(* the index of the next character, the stream's fail flag, the last       *)
(* token read and the current square.  The table of the character codes    *)
(* 32 to 126 names the quotation mark, the backslash and the grave accent, *)
(* which no FEN uses, by words.                                            *)
(***************************************************************************)
AsciiChars ==
  <<" ", "!", "quo", "#", "$", "%", "&", "'", "(", ")", "*", "+", ",", "-",
    ".", "/", "0", "1", "2", "3", "4", "5", "6", "7", "8", "9", ":", ";",
    "<", "=", ">", "?", "@", "A", "B", "C", "D", "E", "F", "G", "H", "I",
    "J", "K", "L", "M", "N", "O", "P", "Q", "R", "S", "T", "U", "V", "W",
    "X", "Y", "Z", "[", "bsl", "]", "^", "_", "grv", "a", "b", "c", "d", "e",
    "f", "g", "h", "i", "j", "k", "l", "m", "n", "o", "p", "q", "r", "s",
    "t", "u", "v", "w", "x", "y", "z", "{", "|", "}", "~">>

Ord(ch) == 31 + (CHOOSE i \in 1..Len(AsciiChars) : AsciiChars[i] = ch)

Chr(n) == AsciiChars[n - 31]

isspace(ch) == ch = " "

isdigit(ch) == ch \in Digits

islower(ch) == Ord(ch) \in Ord("a")..Ord("z")

toupper(ch) == IF islower(ch) THEN Chr(Ord(ch) - 32) ELSE ch

PieceToChar ==
  <<" ", "P", "N", "B", "R", "Q", "K", " ", " ", "p", "n", "b", "r", "q", "k">>

\* PieceToChar.find(token): the index, or -1 for string::npos
PieceToChar_find(ch) ==
  LET hit == {i \in 1..Len(PieceToChar) : PieceToChar[i] = ch}
  IN IF hit = {} THEN -1 ELSE (CHOOSE i \in hit : \A j \in hit : i <= j) - 1

\* ss >> x for a character variable x (token, col or row), with noskipws
GetInto(buf, r, x) ==
  IF r.fail \/ r.i > Len(buf) THEN [r EXCEPT !.fail = TRUE]
  ELSE [r EXCEPT ![x] = buf[r.i], !.i = @ + 1]

\* ss >> token, with noskipws
GetChar(buf, r) == GetInto(buf, r, "token")

RECURSIVE SkipWs(_, _)
SkipWs(buf, i) == IF i <= Len(buf) /\ isspace(buf[i]) THEN SkipWs(buf, i + 1) ELSE i

\* ss >> token, with skipws
GetCharWs(buf, r) ==
  IF r.fail THEN r ELSE GetChar(buf, [r EXCEPT !.i = SkipWs(buf, r.i)])

Peek(buf, r) == IF r.fail \/ r.i > Len(buf) THEN "EOF" ELSE buf[r.i]

PutBack(buf, r) == IF r.fail THEN r ELSE [r EXCEPT !.i = @ - 1]

RECURSIVE DigitRun(_, _)
DigitRun(buf, i) == IF i <= Len(buf) /\ isdigit(buf[i]) THEN DigitRun(buf, i + 1) ELSE i

\* the digits of the number are buf[i1..i2-1], its text starts at i0
GetIntEnd(buf, r, i0, i1, i2) ==
  IF i2 = i1 THEN [r EXCEPT !.fail = TRUE, !.i = i1, !.val = 0]
  ELSE [r EXCEPT !.i = i2, !.val = stoi(SubSeq(buf, i0, i2 - 1))]

GetIntSigned(buf, r, i0, i1) == GetIntEnd(buf, r, i0, i1, DigitRun(buf, i1))

GetIntAt(buf, r, i0) ==
  GetIntSigned(buf, r, i0,
               IF i0 <= Len(buf) /\ buf[i0] \in {"-", "+"} THEN i0 + 1 ELSE i0)

\* ss >> n for an int n, with skipws: the stream after it, the number in val
GetInt(buf, r) ==
  IF r.fail THEN [r EXCEPT !.val = 0] ELSE GetIntAt(buf, r, SkipWs(buf, r.i))

\* 1. Piece placement
RECURSIVE PlacementLoop(_, _)
PlacementStep(buf, r) ==
  IF r.fail \/ isspace(r.token) THEN r
  ELSE IF isdigit(r.token)
    THEN PlacementLoop(buf, [r EXCEPT !.sq = @ + DigitVal(r.token) * EAST])
  ELSE IF r.token = "/"
    THEN IF is_house(r.p) /\ r.sq + 2 * SOUTH < SQ_A1
         THEN [r EXCEPT !.sq = @ + 2 * SOUTH]
         ELSE PlacementLoop(buf, [r EXCEPT !.sq = @ + 2 * SOUTH])
  ELSE IF PieceToChar_find(r.token) # -1
    THEN PlacementLoop(buf, [r EXCEPT !.p = put_piece(r.p, PieceToChar_find(r.token), r.sq),
                                      !.sq = @ + 1])
  ELSE IF is_house(r.p) /\ r.token = "~"
    THEN PlacementLoop(buf, [r EXCEPT !.p.promotedPieces = @ \cup {r.sq - 1}])
  ELSE IF is_house(r.p) /\ r.token = "["
    THEN r
  ELSE PlacementLoop(buf, r)

PlacementLoop(buf, r0) == PlacementStep(buf, GetChar(buf, r0))

\* Pieces in hand
RECURSIVE HandLoop(_, _)
HandStep(buf, r) ==
  IF r.fail \/ isspace(r.token) THEN r
  ELSE IF r.token = "]" THEN HandLoop(buf, r)
  ELSE IF PieceToChar_find(r.token) # -1
    THEN HandLoop(buf, [r EXCEPT !.p = add_to_hand(r.p, color_of(PieceToChar_find(r.token)),
                                         type_of_piece(PieceToChar_find(r.token)))])
  ELSE HandLoop(buf, r)

HandLoop(buf, r0) == HandStep(buf, GetChar(buf, r0))

HandPieces(buf, r) == IF ~isspace(r.token) THEN HandLoop(buf, r) ELSE r

\* 2. Active color
SetSideToMove(r) == [r EXCEPT !.p.sideToMove = IF r.token = "w" THEN WHITE ELSE BLACK]

ActiveColor(buf, r) == GetChar(buf, SetSideToMove(GetChar(buf, r)))

\* 3. Castling availability
CastlingRookOf(q, c, ksq, token) ==
  IF token = "K"
    THEN msb({s \in ksq..relative_square(c, 7) : s = ksq \/ piece_on(q, s) = make_piece(c, ROOK)})
  ELSE IF token = "Q"
    THEN lsb({s \in relative_square(c, SQ_A1)..ksq :
                s = ksq \/ piece_on(q, s) = make_piece(c, ROOK)})
  ELSE make_square(Ord(token) - Ord("A"), relative_rank(c, RANK_1))

CastlingSet(r, c, ksq, rsq) ==
  IF rsq # ksq THEN [r EXCEPT !.p = set_castling_right(r.p, c, ksq, rsq)] ELSE r

CastlingUpper(r, c, ksq) ==
  IF ~(r.token = "K" \/ r.token = "Q" \/ Ord(r.token) \in Ord("A")..Ord("H"))
  THEN r
  ELSE CastlingSet(r, c, ksq, CastlingRookOf(r.p, c, ksq, r.token))

CastlingToken(r, c) ==
  IF rank_of(square_king(r.p, c)) # relative_rank(c, RANK_1) THEN r
  ELSE CastlingUpper([r EXCEPT !.token = toupper(@)], c, square_king(r.p, c))

RECURSIVE CastlingLoop(_, _)
CastlingStep(buf, r) ==
  IF r.fail \/ isspace(r.token) THEN r
  ELSE CastlingLoop(buf, CastlingToken(r, IF islower(r.token) THEN BLACK ELSE WHITE))

CastlingLoop(buf, r0) == CastlingStep(buf, GetChar(buf, r0))

\* 4. En passant square
EpValid(q, ep) ==
  /\ pawn_attacks_bb(Flip(q.sideToMove), ep) \cap pieces_cpt(q, q.sideToMove, PAWN) # {}
  /\ (ep + pawn_push(Flip(q.sideToMove))) \in pieces_cpt(q, Flip(q.sideToMove), PAWN)
  /\ pieces(q) \cap {ep, ep + pawn_push(q.sideToMove)} = {}
  /\ ~(is_atomic(q) /\ square_king(q, q.sideToMove) \in attacks_bb(KING, ep, {}))

SetEpSquare(r, ep) == [r EXCEPT !.p = SetSt(r.p, [St(r.p) EXCEPT !.epSquare = ep])]

EpSquareOf(r, ep) == SetEpSquare(r, IF EpValid(r.p, ep) THEN ep ELSE SQ_NONE)

EpRow(r) ==
  IF ~r.fail /\ r.row = (IF r.p.sideToMove = WHITE THEN "6" ELSE "3")
  THEN EpSquareOf(r, make_square(Ord(r.col) - Ord("a"), Ord(r.row) - Ord("1")))
  ELSE SetEpSquare(r, SQ_NONE)

EpCol(buf, r) ==
  IF ~r.fail /\ Ord(r.col) \in Ord("a")..Ord("h")
  THEN EpRow(GetInto(buf, r, "row"))
  ELSE SetEpSquare(r, SQ_NONE)

EnPassantSquare(buf, r) == EpCol(buf, GetInto(buf, r, "col"))

\* '3' - token or token - '0', limited to 0..3
ClampChecks(n) == IF n > 3 THEN 3 ELSE IF n < 0 THEN 0 ELSE n

SetChecksGiven(r, c, n) ==
  [r EXCEPT !.p = SetSt(r.p, [St(r.p) EXCEPT !.checksGiven[c] = n])]

SetRemaining(r, c) == SetChecksGiven(r, c, ClampChecks(Ord("3") - Ord(r.token)))

\* a trailing field read as the checks that remain
SetGivenAsRemaining(r, c) ==
  SetChecksGiven(r, c, ClampChecks(Ord("3") - Ord(r.token)))

SetGiven(r, c) == SetChecksGiven(r, c, ClampChecks(Ord(r.token) - Ord("0")))

\* Remaining checks counter for Three-Check positions
RemainingToken(buf, r) ==
  IF is_three_check(r.p) /\ Peek(buf, r) = "+"
  THEN SetRemaining(GetCharWs(buf, GetCharWs(buf, SetRemaining(r, WHITE))), BLACK)
  ELSE PutBack(buf, r)

RemainingChecks(buf, r) == RemainingToken(buf, GetCharWs(buf, r))

\* 5-6. Halfmove clock and fullmove number
SetRule50(r) == [r EXCEPT !.p = SetSt(r.p, [St(r.p) EXCEPT !.rule50 = r.val])]

SetGamePly(r) == [r EXCEPT !.p.gamePly = r.val]

Clocks(buf, r) == SetGamePly(GetInt(buf, SetRule50(GetInt(buf, r))))

\* Checks given in Three-Check positions
GivenToken(buf, r) ==
  IF ~r.fail /\ r.token = "+"
  THEN SetGiven(GetCharWs(buf, GetCharWs(buf, SetGiven(GetCharWs(buf, r), WHITE))), BLACK)
  ELSE r

GivenChecks(buf, r) ==
  IF is_three_check(r.p) THEN GivenToken(buf, GetCharWs(buf, r)) ELSE r

\* gamePly, chess960 and set_state(st)
FinishSet(q, isChess960) ==
  set_state([q EXCEPT
               !.gamePly = (IF 2 * (@ - 1) > 0 THEN 2 * (@ - 1) ELSE 0)
                             + (IF q.sideToMove = BLACK THEN 1 ELSE 0),
               !.chess960 = isChess960])

\* a set that leaves the castling masks of the object as they were
MemsetKeepMasks(this, v) ==
  [ZeroPosition(v, ZeroStateInfo) EXCEPT
     !.castlingRightsMask =
        IF "castlingRightsMask" \in DOMAIN this THEN this.castlingRightsMask ELSE @]

\* std::memset(this, 0, ...), std::memset(si, 0, ...), the fill of
\* pieceList with SQ_NONE, st = si and the variant: nothing of the object's
\* previous contents is kept
Memset(this, v) == ZeroPosition(v, ZeroStateInfo)

\* the stream and the locals of Position::set after the two memsets
ParserInit(this, v) ==
  [p |-> Memset(this, v), i |-> 1, fail |-> FALSE,
   token |-> "?", col |-> "?", row |-> "?", sq |-> 56, val |-> 0]

\* Position::set(fenStr, isChess960, v, si, th) on the object this
Position_set(this, buf, isChess960, v) ==
  FinishSet(
    GivenChecks(buf,
      Clocks(buf,
        RemainingChecks(buf,
          EnPassantSquare(buf,
            CastlingLoop(buf,
              ActiveColor(buf,
                HandPieces(buf,
                  PlacementLoop(buf, ParserInit(this, v))))))))).p,
    isChess960)

(***************************************************************************)
(* movegen.cpp: the move lists, as sets of moves.  Type is "EVASIONS" or   *)
(* "NON_EVASIONS", the two generators generate<LEGAL> filters.             *)
(***************************************************************************)
shift(b, df, dr) == UNION {StepTo(s, df, dr) : s \in b}

\* for (from = *pl; from != SQ_NONE; from = *++pl)
squares_of(p, pc) ==
  LET ends == {i \in 0..15 : p.pieceList[pc][i] = SQ_NONE}
      n == IF ends = {} THEN 16 ELSE CHOOSE i \in ends : \A j \in ends : i <= j
  IN {p.pieceList[pc][i] : i \in 0..(n - 1)}

capture(p, m) ==
  (~empty(p, to_sq(m)) /\ type_of(m) # CASTLING) \/ type_of(m) = ENPASSANT

moved_piece(p, m) ==
  IF type_of(m) = DROP THEN dropped_piece(m) ELSE piece_on(p, from_sq(m))

can_capture(p) ==
  \/ ep_square(p) # SQ_NONE
  \/ (UNION {pawn_attacks_bb(p.sideToMove, s) : s \in pieces_cpt(p, p.sideToMove, PAWN)})
       \cap pieces_c(p, Flip(p.sideToMove)) # {}
  \/ \E s \in pieces_c(p, p.sideToMove) \ pieces_cpt(p, p.sideToMove, PAWN) :
       attacks_bb(type_of_piece(piece_on(p, s)), s, pieces(p))
         \cap pieces_c(p, Flip(p.sideToMove)) # {}

\* the promotion pieces of the standard rules; knightCheck is
\* attacks_bb<KNIGHT>(to) & ksq
PromotionTypes(knightCheck) ==
  {QUEEN} \cup (IF knightCheck THEN {KNIGHT} ELSE {})
    \cup {ROOK, BISHOP} \cup (IF ~knightCheck THEN {KNIGHT} ELSE {})

make_promotions(p, Type, from, to, ksq) ==
  {make(PROMOTION, from, to, pt) :
     pt \in IF is_anti(p)
            THEN IF Type = "NON_EVASIONS"
                 THEN {QUEEN, ROOK, BISHOP, KNIGHT, KING} ELSE {}
            ELSE PromotionTypes(ksq \in attacks_bb(KNIGHT, to, {}))}

generate_drops(p, Us, Pt, b) ==
  IF count_in_hand(p, Us, Pt) > 0
  THEN {make_drop(to, make_piece(Us, Pt)) : to \in b}
  ELSE {}

generate_king_moves(p, Us, target) ==
  UNION {{make_move(ksq, to) : to \in attacks_bb(KING, ksq, {}) \cap target} :
           ksq \in pieces_cpt(p, Us, KING)}

\* the bitboards generate_pawn_moves computes before it emits moves
PawnsOn7(p, Us) == {s \in pieces_cpt(p, Us, PAWN) : relative_rank_sq(Us, s) = 6}

PawnsNotOn7(p, Us) == {s \in pieces_cpt(p, Us, PAWN) : relative_rank_sq(Us, s) # 6}

PawnEnemiesOf(p, Us, Type, target, enemies0) ==
  IF is_atomic(p)
  THEN IF Type = "NON_EVASIONS" THEN enemies0 \cap target
       ELSE enemies0 \ adjacent_squares_bb(pieces_cpt(p, Us, KING))
  ELSE enemies0

PawnEnemies(p, Us, Type, target) ==
  PawnEnemiesOf(p, Us, Type, target,
                IF Type = "EVASIONS" THEN pieces_c(p, Flip(Us)) \cap target
                ELSE pieces_c(p, Flip(Us)))

PawnEmpty(p, target) ==
  IF is_anti(p) THEN (Squares \ pieces(p)) \cap target ELSE Squares \ pieces(p)

PawnDr(Us) == IF Us = WHITE THEN 1 ELSE -1

\* the single and the double pushes, before the evasion target is applied
PawnPush1(p, Us, emptySquares) == shift(PawnsNotOn7(p, Us), 0, PawnDr(Us)) \cap emptySquares

PawnPush2(Us, emptySquares, b1) ==
  shift({s \in b1 : relative_rank_sq(Us, s) = 2}, 0, PawnDr(Us)) \cap emptySquares

PawnMovesOf(p, Us, Type, target, enemies, emptySquares, s1, s2) ==
  {make_move(to - pawn_push(Us), to) :
     to \in IF Type = "EVASIONS" THEN s1 \cap target ELSE s1}
    \cup {make_move(to - pawn_push(Us) - pawn_push(Us), to) :
            to \in IF Type = "EVASIONS" THEN s2 \cap target ELSE s2}
    \cup UNION {UNION {make_promotions(p, Type, s, to, square_king(p, Flip(Us))) :
                         to \in ((StepTo(s, 1, PawnDr(Us)) \cup StepTo(s, -1, PawnDr(Us)))
                                   \cap enemies)
                                  \cup (StepTo(s, 0, PawnDr(Us))
                                          \cap (IF Type = "EVASIONS"
                                                THEN emptySquares \cap target
                                                ELSE emptySquares))} :
                  s \in PawnsOn7(p, Us)}
    \cup UNION {{make_move(s, to) :
                   to \in (StepTo(s, 1, PawnDr(Us)) \cup StepTo(s, -1, PawnDr(Us)))
                            \cap enemies} :
                  s \in PawnsNotOn7(p, Us)}
    \cup (IF ep_square(p) # SQ_NONE
             /\ ~(Type = "EVASIONS" /\ (ep_square(p) - pawn_push(Us)) \notin target)
          THEN {make(ENPASSANT, s, ep_square(p), KNIGHT) :
                  s \in PawnsNotOn7(p, Us) \cap pawn_attacks_bb(Flip(Us), ep_square(p))}
          ELSE {})

PawnMovesPush(p, Us, Type, target, enemies, emptySquares, s1) ==
  PawnMovesOf(p, Us, Type, target, enemies, emptySquares, s1,
              PawnPush2(Us, emptySquares, s1))

PawnMovesEmpty(p, Us, Type, target, enemies, emptySquares) ==
  PawnMovesPush(p, Us, Type, target, enemies, emptySquares,
                PawnPush1(p, Us, emptySquares))

generate_pawn_moves(p, Us, Type, target) ==
  PawnMovesEmpty(p, Us, Type, target, PawnEnemies(p, Us, Type, target), PawnEmpty(p, target))

generate_moves(p, Us, Pt, target) ==
  UNION {{make_move(from, to) : to \in attacks_bb(Pt, from, pieces(p)) \cap target} :
           from \in squares_of(p, make_piece(Us, Pt))}

\* the target bitboard of generate_all, step by step
TargetBase(p, Us, Type) ==
  IF Type = "EVASIONS"
  THEN between_bb(square_king(p, Us), lsb(checkers(p))) \cup {lsb(checkers(p))}
  ELSE Squares \ pieces_c(p, Us)

TargetAnti(p, Us, t0) ==
  IF is_anti(p) /\ can_capture(p) THEN t0 \cap pieces_c(p, Flip(Us)) ELSE t0

TargetAtomicEvasions(p, Us, Type, t1) ==
  IF is_atomic(p) /\ Type = "EVASIONS"
  THEN t1 \cup (pieces_c(p, Flip(Us))
                  \cap (checkers(p)
                          \cup adjacent_squares_bb(
                                 checkers(p) \cup {square_king(p, Flip(Us))})))
  ELSE t1

TargetAtomic(p, Us, t2) ==
  IF is_atomic(p)
  THEN t2 \ (pieces_c(p, Flip(Us)) \cap adjacent_squares_bb(pieces_cpt(p, Us, KING)))
  ELSE t2

TargetOf(p, Us, Type) ==
  TargetAtomic(p, Us,
    TargetAtomicEvasions(p, Us, Type, TargetAnti(p, Us, TargetBase(p, Us, Type))))

\* the drops of generate_all on the squares b
AllDrops(p, Us, b) ==
  IF is_house(p) /\ count_in_hand(p, Us, ALL_PIECES) > 0
  THEN generate_drops(p, Us, PAWN, {s \in b : rank_of(s) \notin {RANK_1, RANK_8}})
         \cup UNION {generate_drops(p, Us, Pt, b) : Pt \in {KNIGHT, BISHOP, ROOK, QUEEN}}
  ELSE {}

AllCastlings(p, Us, Type) ==
  IF Type # "EVASIONS" /\ can_castle(p, CastlingOf(Us, ANY_CASTLING))
  THEN {make(CASTLING, square_king(p, Us), castling_rook_square(p, CrInt(cr)), KNIGHT) :
          cr \in {c \in {CastlingOf(Us, KING_SIDE), CastlingOf(Us, QUEEN_SIDE)} :
                    ~castling_impeded(p, CrInt(c)) /\ can_castle(p, c)}}
  ELSE {}

AllKingMoves(p, Us, Type, target) ==
  IF is_anti(p) THEN generate_king_moves(p, Us, target)
  ELSE IF Type # "EVASIONS"
  THEN {make_move(square_king(p, Us), to) :
          to \in attacks_bb(KING, square_king(p, Us), {}) \cap target}
  ELSE {}

GenerateTarget(p, Us, Type, target) ==
  generate_pawn_moves(p, Us, Type, target)
    \cup UNION {generate_moves(p, Us, Pt, target) : Pt \in {KNIGHT, BISHOP, ROOK, QUEEN}}
    \cup AllDrops(p, Us, IF Type = "EVASIONS" THEN Xor(target, checkers(p))
                         ELSE Xor(target, pieces_c(p, Flip(Us))))
    \cup AllKingMoves(p, Us, Type, target)
    \cup (IF is_anti(p) /\ can_capture(p) THEN {} ELSE AllCastlings(p, Us, Type))

generate_all(p, Us, Type) == GenerateTarget(p, Us, Type, TargetOf(p, Us, Type))

generate_NON_EVASIONS(p) == generate_all(p, p.sideToMove, "NON_EVASIONS")

\* the squares the king may step to when in check
KingEvasions(p, us, ksq, sliderAttacks) ==
  IF is_atomic(p)
  THEN (attacks_bb(KING, ksq, {}) \ pieces(p))
         \ (sliderAttacks \ adjacent_squares_bb(pieces_cpt(p, Flip(us), KING)))
  ELSE (attacks_bb(KING, ksq, {}) \ pieces_c(p, us)) \ sliderAttacks

SliderAttacksOn(p, ksq) ==
  UNION {line_bb(ksq, s) \ checkers(p) : s \in checkers(p) \ pieces_pt2(p, KNIGHT, PAWN)}

generate_EVASIONS(p) ==
  IF is_anti(p) THEN {}
  ELSE {make_move(square_king(p, p.sideToMove), to) :
          to \in KingEvasions(p, p.sideToMove, square_king(p, p.sideToMove),
                              SliderAttacksOn(p, square_king(p, p.sideToMove)))}
         \cup (IF more_than_one(checkers(p)) THEN {}
               ELSE generate_all(p, p.sideToMove, "EVASIONS"))

(***************************************************************************)
(* position.cpp: legality tests and the legal move list                    *)
(***************************************************************************)
\* the king's destination square of a castling move encoded as king takes rook
CastlingKingSquare(us, from, to) == relative_square(us, IF to > from THEN SQ_G1 ELSE SQ_C1)

CastlingRookSquare(us, from, to) == relative_square(us, IF to > from THEN SQ_F1 ELSE SQ_D1)

kings_adjacent_m(p, m) ==
  IF type_of_piece(moved_piece(p, m)) # KING THEN kings_adjacent(p)
  ELSE (IF type_of(m) = CASTLING
        THEN CastlingKingSquare(p.sideToMove, from_sq(m), to_sq(m))
        ELSE to_sq(m))
         \in adjacent_squares_bb(pieces_cpt(p, Flip(p.sideToMove), KING))

\* the occupancy left by an atomic capture and the test that the own king
\* is then attacked by a remaining slider or checker
AtomicBlast(p, to) == attacks_bb(KING, to, {}) \cap Xor(pieces(p), pieces_pt(p, PAWN))

AtomicCapsq(m) ==
  IF type_of(m) = ENPASSANT
  THEN make_square(file_of(to_sq(m)), rank_of(from_sq(m)))
  ELSE to_sq(m)

\* b is the occupancy after the explosion
KingExposedOn(p, us, ksq, b) ==
  \/ checkers(p) \cap b # {}
  \/ attacks_bb(ROOK, ksq, b) \cap pieces_cpt2(p, Flip(us), QUEEN, ROOK) \cap b # {}
  \/ attacks_bb(BISHOP, ksq, b) \cap pieces_cpt2(p, Flip(us), QUEEN, BISHOP) \cap b # {}

AtomicKingExposed(p, m) ==
  KingExposedOn(p, p.sideToMove, square_king(p, p.sideToMove),
                Xor(pieces(p),
                    AtomicBlast(p, to_sq(m)) \cup {AtomicCapsq(m)} \cup {from_sq(m)}))

RECURSIVE generate_LEGAL(_)

\* the atomic part of pseudo_legal: the moves it rejects at once
AtomicReject(p, m, us, from, to, pc) ==
  \/ pc = NO_PIECE
  \/ color_of(pc) # us
  \/ /\ capture(p, m)
     /\ \/ type_of_piece(pc) = KING
        \/ to \in pieces_c(p, us)
        \/ to \in attacks_bb(KING, square_king(p, us), {})
        \/ /\ ~kings_adjacent(p)
           /\ \/ type_of_piece(pc) = PAWN /\ file_of(from) = file_of(to)
              \/ /\ square_king(p, Flip(us)) \notin attacks_bb(KING, to, {})
                 /\ AtomicKingExposed(p, m)

\* the pawn part of pseudo_legal: the pawn moves it rejects
PawnReject(p, us, from, to) ==
  \/ rank_of(to) \in {RANK_1, RANK_8}
  \/ /\ ~(to \in pawn_attacks_bb(us, from) \cap pieces_c(p, Flip(us)))
     /\ ~(from + pawn_push(us) = to /\ empty(p, to))
     /\ ~(/\ from + 2 * pawn_push(us) = to
          /\ relative_rank_sq(us, from) = RANK_2
          /\ empty(p, to)
          /\ empty(p, to - pawn_push(us)))

\* the last part of pseudo_legal: evasions when the side to move is in check
EvasionOK(p, m, us, from, to, pc, blast) ==
  IF checkers(p) = {} THEN TRUE
  ELSE IF is_atomic(p) /\ kings_adjacent_m(p, m) THEN TRUE
  \* ~(checkers() & blast) is the bitwise complement: non-zero unless the
  \* intersection is the full board
  ELSE IF is_atomic(p) /\ capture(p, m)
            /\ (\/ square_king(p, Flip(us)) \in blast
                \/ checkers(p) \cap blast # Squares) THEN TRUE
  ELSE IF type_of_piece(pc) # KING
       THEN /\ ~more_than_one(checkers(p))
            /\ to \in between_bb(lsb(checkers(p)), square_king(p, us)) \cup checkers(p)
  ELSE attackers_to_occ(p, to, Xor(pieces(p), {from})) \cap pieces_c(p, Flip(us)) = {}

PseudoLegalOf(p, m, us, from, to, pc, isDrop) ==
  IF ~is_house(p) /\ type_of(m) = DROP THEN FALSE
  ELSE IF is_variant_end(p) THEN FALSE
  ELSE IF is_atomic(p) /\ AtomicReject(p, m, us, from, to, pc) THEN FALSE
  ELSE IF is_anti(p) /\ ~capture(p, m) /\ can_capture(p) THEN FALSE
  ELSE IF type_of(m) # NORMAL /\ type_of(m) # DROP THEN m \in generate_LEGAL(p)
  ELSE IF ~isDrop /\ promotion_type(m) - KNIGHT # NO_PIECE_TYPE THEN FALSE
  ELSE IF pc = NO_PIECE \/ color_of(pc) # us THEN FALSE
  ELSE IF isDrop /\ (p.pieceCountInHand[us][type_of_piece(pc)] = 0 \/ ~empty(p, to))
       THEN FALSE
  ELSE IF to \in pieces_c(p, us) THEN FALSE
  ELSE IF ~isDrop /\ type_of_piece(pc) = PAWN /\ PawnReject(p, us, from, to) THEN FALSE
  ELSE IF ~isDrop /\ type_of_piece(pc) # PAWN
            /\ to \notin attacks_bb(type_of_piece(pc), from, pieces(p)) THEN FALSE
  ELSE EvasionOK(p, m, us, from, to, pc, AtomicBlast(p, to))

pseudo_legal(p, m) ==
  PseudoLegalOf(p, m, p.sideToMove, from_sq(m), to_sq(m), moved_piece(p, m),
                is_house(p) /\ type_of(m) = DROP)

\* the enemy pieces that attack s when the occupancy is occ
EnemyAttackers(p, them, s, occ) == attackers_to_occ(p, s, occ) \cap pieces_c(p, them)

\* a castling test that looks at no square of the king's way
CastlingAnyPath(p, m, us, from, to, kto) == TRUE

\* the castling part of legal: kto is the king's destination
\* for (Square s = to; s != from; s += step)
CastlingLegal(p, m, us, from, to, kto) ==
  /\ \A s \in (IF kto > from THEN (from + 1)..kto ELSE kto..(from - 1)) :
       IF is_atomic(p)
       THEN ~(/\ s \notin attacks_bb(KING, square_king(p, Flip(us)), {})
              /\ EnemyAttackers(p, Flip(us), s,
                                IF s = kto THEN pieces(p) ELSE Xor(pieces(p), {from})) # {})
       ELSE EnemyAttackers(p, Flip(us), s, pieces(p)) = {}
  /\ \/ ~p.chess960
     \/ is_atomic(p) /\ kings_adjacent_m(p, m)
     \/ attacks_bb(ROOK, kto, Xor(pieces(p), {to}))
          \cap pieces_cpt2(p, Flip(us), ROOK, QUEEN) = {}

\* legal() that accepts every en passant capture
EnPassantAny(p, them, ksq, occupied) == TRUE

\* the en passant part of legal: occupied is the occupancy after the capture
EnPassantLegal(p, them, ksq, occupied) ==
  /\ attacks_bb(ROOK, ksq, occupied) \cap pieces_cpt2(p, them, QUEEN, ROOK) = {}
  /\ attacks_bb(BISHOP, ksq, occupied) \cap pieces_cpt2(p, them, QUEEN, BISHOP) = {}

\* the king-move part of legal
KingMoveLegal(p, m, them, from, to) ==
  IF is_atomic(p) /\ kings_adjacent(p) /\ ~kings_adjacent_m(p, m)
  THEN /\ EnemyAttackers(p, them, to, pieces(p)) \cap pieces_pt2(p, KNIGHT, PAWN) = {}
       /\ slider_attackers_to_occ(p, to, Xor(pieces(p), {from}) \cup {to})
            \cap pieces_c(p, them) = {}
  ELSE EnemyAttackers(p, them, to, pieces(p)) = {}

LegalOf(p, m, us, from, to) ==
  IF is_anti(p) THEN TRUE
  ELSE IF (((p.var # CHESS_VARIANT \/ p.subvar # CHESS_VARIANT) /\ type_of(m) = NORMAL)
             \/ (is_house(p) /\ type_of(m) = DROP))
            /\ ~pseudo_legal(p, m) THEN FALSE
  ELSE IF is_house(p) /\ type_of(m) = DROP THEN TRUE
  ELSE IF is_atomic(p) /\ type_of(m) # CASTLING /\ kings_adjacent_m(p, m) THEN TRUE
  ELSE IF is_atomic(p) /\ type_of(m) # CASTLING /\ capture(p, m)
       THEN \/ square_king(p, Flip(us)) \in AtomicBlast(p, to)
            \/ ~AtomicKingExposed(p, m)
  ELSE IF type_of(m) = ENPASSANT
       THEN EnPassantLegal(p, Flip(us), square_king(p, us),
                           Xor(Xor(pieces(p), {from}), {to - pawn_push(us)}) \cup {to})
  ELSE IF type_of(m) = CASTLING
       THEN CastlingLegal(p, m, us, from, to, CastlingKingSquare(us, from, to))
  ELSE IF type_of_piece(piece_on(p, from)) = KING
       THEN KingMoveLegal(p, m, Flip(us), from, to)
  ELSE \/ from \notin blockers_for_king(p, us)
       \/ aligned(from, to, square_king(p, us))

legal(p, m) == LegalOf(p, m, p.sideToMove, from_sq(m), to_sq(m))

\* a generate<LEGAL> that never calls legal()
NeedsNoTest(p, m, us) == FALSE

\* the moves of the list that generate<LEGAL> tests with legal()
NeedsLegalTest(p, m, us) ==
  \/ /\ \/ blockers_for_king(p, us) \cap pieces_c(p, us) # {}
        \/ from_sq(m) = square_king(p, us)
        \/ type_of(m) = ENPASSANT
     /\ ~(is_house(p) /\ type_of(m) = DROP)
  \/ is_atomic(p) /\ capture(p, m)

generate_LEGAL(p) ==
  IF is_variant_end(p) THEN {}
  ELSE {m \in (IF checkers(p) # {} THEN generate_EVASIONS(p) ELSE generate_NON_EVASIONS(p)) :
          ~(NeedsLegalTest(p, m, p.sideToMove) /\ ~legal(p, m))}

\* the standard part of gives_check; ksq is the enemy king's square
StandardCheck(p, m, us, from, to, ksq, rto) ==
  IF to \in check_squares(p, type_of_piece(piece_on(p, from))) THEN TRUE
  ELSE IF from \in blockers_for_king(p, Flip(us)) /\ ~aligned(from, to, ksq) THEN TRUE
  ELSE CASE type_of(m) = NORMAL -> FALSE
         [] type_of(m) = PROMOTION ->
              ksq \in attacks_bb(promotion_type(m), to, Xor(pieces(p), {from}))
         [] type_of(m) = ENPASSANT ->
              ~EnPassantLegal(p, us, ksq,
                              Xor(Xor(pieces(p), {from}),
                                  {make_square(file_of(to), rank_of(from))}) \cup {to})
         [] type_of(m) = CASTLING ->
              /\ ksq \in attacks_bb(ROOK, rto, {})
              /\ ksq \in attacks_bb(ROOK, rto,
                                    Xor(Xor(pieces(p), {from}), {to})
                                      \cup {rto, CastlingKingSquare(us, from, to)})
         [] OTHER -> FALSE

\* the atomic part of gives_check for a capture; blast holds the exploded squares
BlastCheck(p, us, from, to, ksq, blast) ==
  IF to \in attacks_bb(KING, ksq, {}) THEN FALSE
  ELSE (slider_attackers_to_occ(p, ksq, Xor(pieces(p), blast \cup {from}))
          \cap Xor(pieces_c(p, us), {from})) \ blast # {}

GivesCheckOf(p, m, us, from, to, ksq) ==
  IF is_house(p) /\ type_of(m) = DROP
  THEN to \in St(p).checkSquares[type_of_piece(dropped_piece(m))]
  ELSE IF is_anti(p) THEN FALSE
  ELSE IF is_atomic(p) /\ type_of(m) = CASTLING /\ relative_rank_sq(us, ksq) = RANK_2
       THEN IF kings_adjacent_m(p, m) THEN FALSE
            ELSE /\ kings_adjacent(p)
                 /\ attackers_to(p, ksq)
                      \cap Xor(Xor(pieces_c(p, us), {from}), {to}) # {}
  ELSE IF is_atomic(p) /\ type_of(m) # CASTLING /\ kings_adjacent_m(p, m) THEN FALSE
  ELSE IF is_atomic(p) /\ type_of(m) # CASTLING
            /\ type_of_piece(piece_on(p, from)) = KING /\ kings_adjacent(p)
       THEN attackers_to_occ(p, ksq, Xor(Xor(pieces(p), {from}), {to}))
              \cap Xor(pieces_c(p, us), {from}) # {}
  ELSE IF is_atomic(p) /\ type_of(m) # CASTLING /\ capture(p, m)
       THEN BlastCheck(p, us, from, to, ksq, AtomicBlast(p, to) \cup {AtomicCapsq(m)})
  ELSE StandardCheck(p, m, us, from, to, ksq, CastlingRookSquare(us, from, to))

\* a gives_check that never sees a check
GivesNoCheck(p, m) == FALSE

gives_check(p, m) ==
  GivesCheckOf(p, m, p.sideToMove, from_sq(m), to_sq(m),
               square_king(p, Flip(p.sideToMove)))

(***************************************************************************)
(* position.cpp: do_move, undo_move and the null move                      *)
(***************************************************************************)
\* the two removals and the two placements of do_castling
CastlingMove(p, us, kfrom, rfrom, kto, rto) ==
  put_piece(
    put_piece([remove_piece(remove_piece(p, kfrom), rfrom) EXCEPT
                 !.board = [@ EXCEPT ![kfrom] = NO_PIECE, ![rfrom] = NO_PIECE]],
              make_piece(us, KING), kto),
    make_piece(us, ROOK), rto)

\* do_castling<Do>(us, from, to, rfrom, rto); to0 is the rook's square, the
\* value of `to` on entry
do_castling(p, Do, us, from, to0) ==
  CastlingMove(p, us,
               IF Do THEN from ELSE CastlingKingSquare(us, from, to0),
               IF Do THEN to0 ELSE CastlingRookSquare(us, from, to0),
               IF Do THEN CastlingKingSquare(us, from, to0) ELSE from,
               IF Do THEN CastlingRookSquare(us, from, to0) ELSE to0)

\* do_move that clears the castling rights and leaves the key alone
LoseCastlingKeepKey(x, mask) ==
  [p |-> SetSt(x.p, [St(x.p) EXCEPT !.castlingRights = @ \ mask]), k |-> x.k]

\* x = [p, k]: the position and the running key k of do_move.
\* k ^= castling[castlingRights]; castlingRights &= ~mask; k ^= castling[...]
LoseCastling(x, mask) ==
  IF St(x.p).castlingRights # {} /\ mask # {}
  THEN [p |-> SetSt(x.p, [St(x.p) EXCEPT !.castlingRights = @ \ mask]),
        k |-> Xor(Xor(x.k, Zobrist_castling(St(x.p).castlingRights)),
                  Zobrist_castling(St(x.p).castlingRights \ mask))]
  ELSE x

\* st->materialKey ^= psq[pc][pieceCount[pc] + d]
MaterialKeyXor(q, pc, d) ==
  SetSt(q, [St(q) EXCEPT !.materialKey = Xor(@, Zobrist_psq(pc, q.pieceCount[pc] + d))])

\* one blasted piece bpc on bsq
BlastRemove(x, bsq, bpc) ==
  [p |-> MaterialKeyXor(
           remove_piece(SetSt(x.p, [St(x.p) EXCEPT
                                      !.nonPawnMaterial[color_of(bpc)] =
                                         @ - PieceValue(type_of_piece(bpc))]),
                        bsq),
           bpc, 0),
   k |-> Xor(x.k, Zobrist_psq(bpc, bsq))]

BlastSquare(x, bsq) ==
  IF piece_on(x.p, bsq) # NO_PIECE /\ type_of_piece(piece_on(x.p, bsq)) # PAWN
  THEN LoseCastling(BlastRemove(x, bsq, piece_on(x.p, bsq)), x.p.castlingRightsMask[bsq])
  ELSE x

\* the blast loop of do_move
RECURSIVE BlastLoop(_, _)
BlastLoop(x, blast) ==
  IF blast = {} THEN x
  ELSE BlastLoop(BlastSquare(x, lsb(blast)), blast \ {lsb(blast)})

\* the `if (captured)` block of do_move, step by step
CaptureSquare(m, us, to, captured) ==
  IF type_of_piece(captured) = PAWN /\ type_of(m) = ENPASSANT
  THEN to - pawn_push(us) ELSE to

SaveBlast(p, si) ==
  IF is_atomic(p)
  THEN [si EXCEPT !.blastByTypeBB = p.byTypeBB, !.blastByColorBB = p.byColorBB]
  ELSE si

CaptureMaterial(p, si, us, captured, capsq) ==
  IF type_of_piece(captured) = PAWN
  THEN [si EXCEPT !.pawnKey = Xor(@, Zobrist_psq(captured, capsq))]
  ELSE [si EXCEPT !.nonPawnMaterial =
          [@ EXCEPT ![Flip(us)] = @ - PieceValue(captured),
                    ![us] = IF is_house(p) /\ ~is_promoted(p, capsq)
                            THEN @ + PieceValue(captured) ELSE @]]

CaptureRemove(p, us, captured, capsq) ==
  remove_piece(SetSt(p, CaptureMaterial(p, SaveBlast(p, St(p)), us, captured, capsq)),
               capsq)

\* k ^= inHand[pc][n - 1] ^ inHand[pc][n] for the count n now in hand
HandKey(k, q, pc) ==
  Xor(Xor(k, Zobrist_inHand(pc, q.pieceCountInHand[color_of(pc)][type_of_piece(pc)] - 1)),
      Zobrist_inHand(pc, q.pieceCountInHand[color_of(pc)][type_of_piece(pc)]))

AddToHand(q, capsq, add) ==
  [add_to_hand(SetSt(q, [St(q) EXCEPT !.capturedpromoted = is_promoted(q, capsq)]),
               color_of(add), type_of_piece(add))
     EXCEPT !.promotedPieces = @ \ {capsq}]

CaptureAdd(x, capsq, add) ==
  [p |-> AddToHand(x.p, capsq, add), k |-> HandKey(x.k, AddToHand(x.p, capsq, add), add)]

\* a capture that puts a promoted piece in the hand as the piece it became
CaptureHandAsCaptured(x, captured, capsq) ==
  IF is_house(x.p) THEN CaptureAdd(x, capsq, FlipPiece(captured)) ELSE x

CaptureHand(x, captured, capsq) ==
  IF is_house(x.p)
  THEN CaptureAdd(x, capsq,
                  IF is_promoted(x.p, capsq)
                  THEN make_piece(Flip(color_of(captured)), PAWN)
                  ELSE FlipPiece(captured))
  ELSE x

CaptureKeys(x, m, captured, capsq) ==
  [p |-> MaterialKeyXor(IF type_of(m) = ENPASSANT
                        THEN [x.p EXCEPT !.board[capsq] = NO_PIECE] ELSE x.p,
                        captured, 0),
   k |-> Xor(x.k, Zobrist_psq(captured, capsq))]

CaptureBlast(x, from, to) ==
  IF is_atomic(x.p) THEN BlastLoop(x, attacks_bb(KING, to, {}) \ {from}) ELSE x

CaptureAt(x, m, us, from, to, captured, capsq) ==
  CaptureBlast(
    CaptureKeys(
      CaptureHand([x EXCEPT !.p = CaptureRemove(@, us, captured, capsq)], captured, capsq),
      m, captured, capsq),
    from, to)

ResetRule50(x) == [x EXCEPT !.p = SetSt(@, [St(@) EXCEPT !.rule50 = 0])]

DoCapture(x, m, us, from, to, captured) ==
  ResetRule50(CaptureAt(x, m, us, from, to, captured, CaptureSquare(m, us, to, captured)))

\* (int(to) ^ int(from)) == 16
XorIs16(to, from) == to = (IF (from \div 16) % 2 = 0 THEN from + 16 ELSE from - 16)

\* every double push leaves an en passant square
SetsEpAnyPush(p, us, from, to) == XorIs16(to, from)

\* the `if (type_of(pc) == PAWN)` block of do_move, step by step
SetsEpSquare(p, us, from, to) ==
  /\ XorIs16(to, from)
  /\ ~(is_atomic(p)
         /\ square_king(p, Flip(us)) \in attacks_bb(KING, to - pawn_push(us), {}))
  /\ pawn_attacks_bb(us, to - pawn_push(us)) \cap pieces_cpt(p, Flip(us), PAWN) # {}

PromoteKeys(q, us, to, pc, promotion) ==
  SetSt(q, [St(q) EXCEPT
    !.pawnKey = Xor(@, Zobrist_psq(pc, to)),
    !.materialKey = Xor(Xor(@, Zobrist_psq(promotion, q.pieceCount[promotion] - 1)),
                        Zobrist_psq(pc, q.pieceCount[pc])),
    !.nonPawnMaterial[us] = @ + PieceValue(promotion)])

PromotePiece(p, to, promotion) ==
  [put_piece(remove_piece(p, to), promotion, to) EXCEPT
     !.promotedPieces = IF is_house(p) THEN @ \cup {to} ELSE @]

Promote(x, us, to, pc, promotion) ==
  [p |-> PromoteKeys(PromotePiece(x.p, to, promotion), us, to, pc, promotion),
   k |-> Xor(Xor(x.k, Zobrist_psq(pc, to)), Zobrist_psq(promotion, to))]

PawnSpecial(x, m, us, from, to, pc, captured) ==
  IF SetsEpSquare(x.p, us, from, to)
  THEN [p |-> SetSt(x.p, [St(x.p) EXCEPT !.epSquare = to - pawn_push(us)]),
        k |-> Xor(x.k, Zobrist_enpassant(file_of(to - pawn_push(us))))]
  ELSE IF ~(is_atomic(x.p) /\ captured # NO_PIECE) /\ type_of(m) = PROMOTION
  THEN Promote(x, us, to, pc, make_piece(us, promotion_type(m)))
  ELSE x

PawnKeyDelta(p, m, us, from, to, pc, captured) ==
  IF is_atomic(p) /\ captured # NO_PIECE
  THEN Zobrist_psq(make_piece(us, PAWN), from)
  ELSE IF is_house(p) /\ type_of(m) = DROP THEN Zobrist_psq(pc, to)
  ELSE Xor(Zobrist_psq(pc, from), Zobrist_psq(pc, to))

PawnKeyRule50(x, pk) ==
  [x EXCEPT !.p = SetSt(@, [St(@) EXCEPT !.pawnKey = Xor(@, pk), !.rule50 = 0])]

DoPawn(x, m, us, from, to, pc, captured) ==
  PawnKeyRule50(PawnSpecial(x, m, us, from, to, pc, captured),
                PawnKeyDelta(x.p, m, us, from, to, pc, captured))

MinOf(S) == CHOOSE h \in S : \A g \in S : h <= g

\* an end of the loop that follows the fifty-move counter alone, as far back
\* as there are states
RepetitionEndRule50(p) ==
  IF St(p).rule50 < Len(p.st) - 1 THEN St(p).rule50 ELSE Len(p.st) - 1

\* the repetition info computed at the end of do_move
RepetitionEnd(p) ==
  IF is_house(p) THEN St(p).pliesFromNull
  ELSE IF St(p).rule50 < St(p).pliesFromNull THEN St(p).rule50 ELSE St(p).pliesFromNull

RepetitionHits(p, end) ==
  {i \in 4..end : i % 2 = 0 /\ p.st[Len(p.st) - i].key = St(p).key}

RepetitionAt(p, hits) ==
  IF hits = {} THEN 0
  ELSE IF p.st[Len(p.st) - MinOf(hits)].repetition # 0 THEN 0 - MinOf(hits)
  ELSE MinOf(hits)

\* a do_move that finds no repetition
NoRepetition(p) == 0

Repetition(p) == RepetitionAt(p, RepetitionHits(p, RepetitionEnd(p)))

\* do_move, step by step.  The new StateInfo: memcpy up to `key`, the blast
\* arrays cleared, the ply counters incremented
NewStateInfo(old) ==
  [ZeroStateInfo EXCEPT
     !.pawnKey = old.pawnKey, !.materialKey = old.materialKey,
     !.nonPawnMaterial = old.nonPawnMaterial,
     !.castlingRights = old.castlingRights,
     !.rule50 = old.rule50 + 1, !.pliesFromNull = old.pliesFromNull + 1,
     !.checksGiven = old.checksGiven, !.epSquare = old.epSquare]

MoveBegin(p0) ==
  [p |-> [p0 EXCEPT !.st = Append(@, NewStateInfo(St(p0))), !.gamePly = @ + 1],
   k |-> Xor(St(p0).key, Zobrist_side)]

\* the castling block; rook is the piece on the rook's square rfrom
MoveCastling(x, m, us, from, rfrom, rook) ==
  IF type_of(m) = CASTLING
  THEN [p |-> do_castling(x.p, TRUE, us, from, rfrom),
        k |-> Xor(Xor(x.k, Zobrist_psq(rook, rfrom)),
                  Zobrist_psq(rook, CastlingRookSquare(us, from, rfrom)))]
  ELSE x

MoveCapture(x, m, us, from, to, captured) ==
  IF captured # NO_PIECE THEN DoCapture(x, m, us, from, to, captured) ELSE x

\* the key of the moved piece
MoveKey(x, m, from, to, pc, captured) ==
  [x EXCEPT !.k =
     IF is_atomic(x.p) /\ captured # NO_PIECE THEN Xor(@, Zobrist_psq(pc, from))
     ELSE IF is_house(x.p) /\ type_of(m) = DROP
     THEN HandKey(Xor(@, Zobrist_psq(pc, to)), x.p, pc)
     ELSE Xor(Xor(@, Zobrist_psq(pc, from)), Zobrist_psq(pc, to))]

\* Reset en passant square
MoveResetEp(x) ==
  IF St(x.p).epSquare # SQ_NONE
  THEN [p |-> SetSt(x.p, [St(x.p) EXCEPT !.epSquare = SQ_NONE]),
        k |-> Xor(x.k, Zobrist_enpassant(file_of(St(x.p).epSquare)))]
  ELSE x

\* Update castling rights if needed
MoveCastlingRights(x, m, from, to) ==
  IF is_house(x.p) /\ type_of(m) = DROP THEN x
  ELSE LoseCastling(x, x.p.castlingRightsMask[from] \cup x.p.castlingRightsMask[to])

\* the check counter of Three-Check
MoveCheckCount(x, us, givesCheck) ==
  IF is_three_check(x.p) /\ givesCheck
  THEN [p |-> SetSt(x.p, [St(x.p) EXCEPT !.checksGiven[us] = @ + 1]),
        k |-> Xor(Xor(x.k, Zobrist_checks(us, St(x.p).checksGiven[us])),
                  Zobrist_checks(us, St(x.p).checksGiven[us] + 1))]
  ELSE x

AtomicRemoveMover(q, us, pc) ==
  SetSt(MaterialKeyXor(q, pc, 0),
        [St(MaterialKeyXor(q, pc, 0)) EXCEPT
           !.nonPawnMaterial[us] =
              IF type_of_piece(pc) # PAWN THEN @ - PieceValue(type_of_piece(pc)) ELSE @])

\* Move the piece
MovePiece(x, m, us, from, to, pc, captured) ==
  [x EXCEPT !.p =
     IF is_atomic(@) /\ captured # NO_PIECE
     THEN AtomicRemoveMover(remove_piece(@, from), us, pc)
     ELSE IF is_house(@) /\ type_of(m) = DROP
     THEN MaterialKeyXor(drop_piece(@, pc, to), pc, -1)
     ELSE IF type_of(m) # CASTLING THEN move_piece(@, from, to)
     ELSE @]

MovePawn(x, m, us, from, to, pc, captured) ==
  IF type_of_piece(pc) = PAWN THEN DoPawn(x, m, us, from, to, pc, captured) ELSE x

\* capturedPiece, key, checkersBB, promotedPieces and sideToMove
MoveFinish(x, m, us, from, to, captured, givesCheck) ==
  [SetSt(x.p, [St(x.p) EXCEPT
           !.capturedPiece = captured,
           !.capturedpromoted = IF is_house(x.p) /\ captured = NO_PIECE THEN FALSE ELSE @,
           !.key = x.k,
           !.checkersBB = IF givesCheck
                          THEN attackers_to(x.p, square_king(x.p, Flip(us)))
                                 \cap pieces_c(x.p, us)
                          ELSE {}])
     EXCEPT !.promotedPieces = IF is_house(x.p) /\ type_of(m) # DROP /\ is_promoted(x.p, from)
                               THEN Xor(@, {from}) \cup {to} ELSE @,
            !.sideToMove = Flip(us)]

SetRepetition(p) == SetSt(p, [St(p) EXCEPT !.repetition = Repetition(p)])

\* to is the destination of the moved piece, captured is NO_PIECE for castling
DoMoveOf(p0, m, givesCheck, us, from, to, pc, captured) ==
  SetRepetition(
    set_check_info(
      MoveFinish(
        MovePawn(
          MovePiece(
            MoveCheckCount(
              MoveCastlingRights(
                MoveResetEp(
                  MoveKey(
                    MoveCapture(
                      MoveCastling(MoveBegin(p0), m, us, from, to_sq(m),
                                   piece_on(p0, to_sq(m))),
                      m, us, from, to, captured),
                    m, from, to, pc, captured)),
                m, from, to),
              us, givesCheck),
            m, us, from, to, pc, captured),
          m, us, from, to, pc, captured),
        m, us, from, to, captured, givesCheck)))

\* Piece captured = type_of(m) == ENPASSANT ? make_piece(them, PAWN) : piece_on(to),
\* set to NO_PIECE by the castling block
CapturedOf(p, m) ==
  IF type_of(m) = CASTLING THEN NO_PIECE
  ELSE IF type_of(m) = ENPASSANT THEN make_piece(Flip(p.sideToMove), PAWN)
  ELSE piece_on(p, to_sq(m))

do_move(p0, m, givesCheck) ==
  DoMoveOf(p0, m, givesCheck, p0.sideToMove, from_sq(m),
           IF type_of(m) = CASTLING
           THEN CastlingKingSquare(p0.sideToMove, from_sq(m), to_sq(m)) ELSE to_sq(m),
           IF is_house(p0) /\ type_of(m) = DROP THEN dropped_piece(m)
           ELSE piece_on(p0, from_sq(m)),
           CapturedOf(p0, m))

\* the piece the atomic blast restore loop of undo_move puts on bsq
BlastedOn(si, bsq) ==
  {<<c, pt>> \in Colors \X (KNIGHT..KING) :
     bsq \in si.blastByColorBB[c] \cap si.blastByTypeBB[pt]}

UnblastSquare(p, hit, bsq) ==
  IF hit # {}
  THEN put_piece(p, make_piece((CHOOSE h \in hit : TRUE)[1], (CHOOSE h \in hit : TRUE)[2]), bsq)
  ELSE p

\* the atomic blast restore loop of undo_move
RECURSIVE UnblastLoop(_, _, _)
UnblastLoop(p, si, blast) ==
  IF blast = {} THEN p
  ELSE UnblastLoop(UnblastSquare(p, BlastedOn(si, lsb(blast)), lsb(blast)),
                   si, blast \ {lsb(blast)})

\* undo_move, step by step
AtomicCaptured(p) == is_atomic(p) /\ St(p).capturedPiece # NO_PIECE

Unpromotes(p, m) == type_of(m) = PROMOTION /\ ~AtomicCaptured(p)

\* the piece types the blast arrays hold on from
BlastedTypes(p, from) == {pt \in PAWN..KING : from \in St(p).blastByTypeBB[pt]}

\* Piece pc of undo_move
UndoPiece(p, m, us, from, to) ==
  IF Unpromotes(p, m) THEN make_piece(us, PAWN)
  ELSE IF AtomicCaptured(p) /\ BlastedTypes(p, from) # {}
  THEN make_piece(us, MinOf(BlastedTypes(p, from)))
  ELSE piece_on(p, to)

Unpromote(p, m, us, to) ==
  IF Unpromotes(p, m)
  THEN [put_piece(remove_piece(p, to), make_piece(us, PAWN), to) EXCEPT
          !.promotedPieces = IF is_house(p) THEN @ \ {to} ELSE @]
  ELSE p

UndoPutBack(p, m, from, to, pc) ==
  IF AtomicCaptured(p) THEN put_piece(p, pc, from)
  ELSE IF is_house(p) /\ type_of(m) = DROP THEN undrop_piece(p, pc, to)
  ELSE move_piece(p, to, from)

UndoPromoted(p, from, to) ==
  IF is_house(p) /\ is_promoted(p, to)
  THEN [p EXCEPT !.promotedPieces = Xor(@, {to}) \cup {from}] ELSE p

UndoBlast(p, from, to) ==
  IF AtomicCaptured(p) THEN UnblastLoop(p, St(p), attacks_bb(KING, to, {}) \ {from}) ELSE p

\* undo_move that leaves the captured piece in the hand
UndoHandKept(p, to) == p

UndoHand(p, to) ==
  IF is_house(p)
  THEN [remove_from_hand(p, Flip(color_of(St(p).capturedPiece)),
                         IF St(p).capturedpromoted THEN PAWN
                         ELSE type_of_piece(St(p).capturedPiece))
          EXCEPT !.promotedPieces = IF St(p).capturedpromoted THEN @ \cup {to} ELSE @]
  ELSE p

UndoCapture(p, m, us, from, to) ==
  IF St(p).capturedPiece # NO_PIECE
  THEN UndoHand(put_piece(UndoBlast(p, from, to), St(p).capturedPiece,
                          IF type_of(m) = ENPASSANT THEN to - pawn_push(us) ELSE to),
                to)
  ELSE p

UndoBoard(p, m, us, from, to, pc) ==
  IF type_of(m) = CASTLING THEN do_castling(p, FALSE, us, from, to)
  ELSE UndoCapture(UndoPromoted(UndoPutBack(p, m, from, to, pc), from, to),
                   m, us, from, to)

UndoMoveOf(p, m, us, from, to) ==
  [UndoBoard(Unpromote(p, m, us, to), m, us, from, to, UndoPiece(p, m, us, from, to))
     EXCEPT !.st = SubSeq(@, 1, Len(@) - 1), !.gamePly = @ - 1]

undo_move(p0, m) ==
  UndoMoveOf([p0 EXCEPT !.sideToMove = Flip(@)], m, Flip(p0.sideToMove),
             from_sq(m), to_sq(m))

\* the StateInfo of do_null_move: a full copy, then the key and the counters
NullStateInfo(old) ==
  [old EXCEPT
     !.epSquare = SQ_NONE,
     !.key = Xor(IF old.epSquare # SQ_NONE
                 THEN Xor(@, Zobrist_enpassant(file_of(old.epSquare))) ELSE @,
                 Zobrist_side),
     !.rule50 = @ + 1, !.pliesFromNull = 0]

ClearRepetition(p) == SetSt(p, [St(p) EXCEPT !.repetition = 0])

do_null_move(p0) ==
  ClearRepetition(
    set_check_info([p0 EXCEPT !.st = Append(@, NullStateInfo(St(p0))),
                              !.sideToMove = Flip(@)]))

undo_null_move(p0) ==
  [p0 EXCEPT !.st = SubSeq(@, 1, Len(@) - 1), !.sideToMove = Flip(@)]

\* The cuckoo tables hold the key psq[pc][s1] ^ psq[pc][s2] ^ side of every
\* reversible move of a piece that is not a pawn, with the move s1-s2,
\* s1 < s2.  All 3668 keys are placed, so cuckoo[H1(k)] == k or
\* cuckoo[H2(k)] == k says that k is one of them: the entries whose key is k.
CuckooEntries(k) ==
  IF Cardinality(k) = 3 /\ Zobrist_side \subseteq k
  THEN {<<a[2], a[3], b[3]>> : <<a, b>> \in
          {x \in (k \ Zobrist_side) \X (k \ Zobrist_side) :
             /\ x[1][1] = "psq" /\ x[2][1] = "psq"
             /\ x[1][2] = x[2][2]
             /\ x[1][3] < x[2][3]
             /\ type_of_piece(x[1][2]) # PAWN
             /\ x[2][3] \in attacks_bb(type_of_piece(x[1][2]), x[1][3], {})}}
  ELSE {}

\* an end of the loop that follows the fifty-move counter alone, as far
\* back as there are states
CycleEndRule50(p) ==
  IF St(p).rule50 < Len(p.st) - 1 THEN St(p).rule50 ELSE Len(p.st) - 1

\* int end = std::min(st->rule50, st->pliesFromNull)
CycleEnd(p) ==
  IF St(p).rule50 < St(p).pliesFromNull THEN St(p).rule50 ELSE St(p).pliesFromNull

\* the body of the loop for a cuckoo entry e and the ancestor stp:
\* "true" returns, "next" goes on with the next ancestor
CycleEntry(p, ply, i, stp, e) ==
  IF between_bb(e[2], e[3]) \cap pieces(p) # {} THEN "next"
  ELSE IF ply > i THEN "true"
  ELSE IF color_of(piece_on(p, IF empty(p, e[2]) THEN e[3] ELSE e[2])) # p.sideToMove
  THEN "next"
  ELSE IF stp.repetition # 0 THEN "true"
  ELSE "next"

CycleStep(p, ply, i, stp, hit) ==
  IF hit = {} THEN "next"
  ELSE CycleEntry(p, ply, i, stp, CHOOSE e \in hit : TRUE)

\* for (int i = 3; i <= end; i += 2)
RECURSIVE CycleLoop(_, _, _, _)
CycleLoop(p, ply, i, end) ==
  IF i > end THEN FALSE
  ELSE IF CycleStep(p, ply, i, p.st[Len(p.st) - i],
                    CuckooEntries(Xor(St(p).key, p.st[Len(p.st) - i].key))) = "true"
  THEN TRUE
  ELSE CycleLoop(p, ply, i + 2, end)

\* Position::has_game_cycle(ply)
has_game_cycle(p, ply) ==
  IF is_anti(p) THEN FALSE
  ELSE IF CycleEnd(p) < 3 THEN FALSE
  ELSE CycleLoop(p, ply, 3, CycleEnd(p))

\* while (end-- >= 4): stc is `back` plies behind the current state
RECURSIVE RepeatedLoop(_, _, _)
RepeatedLoop(p, back, end) ==
  IF end < 4 THEN FALSE
  ELSE IF p.st[Len(p.st) - back].repetition # 0 THEN TRUE
  ELSE RepeatedLoop(p, back + 1, end - 1)

\* Position::has_repeated()
has_repeated(p) == RepeatedLoop(p, 0, CycleEnd(p))

\* an is_draw without the fifty-move rule
IsDrawByRepetition(p, ply) == St(p).repetition # 0 /\ St(p).repetition < ply

is_draw(p, ply) ==
  IF ~is_house(p) /\ St(p).rule50 > 99
       /\ (checkers(p) = {} \/ generate_LEGAL(p) # {})
  THEN TRUE
  ELSE St(p).repetition # 0 /\ St(p).repetition < ply

(***************************************************************************)
(* The UCI option specification: the option map after UCI::init, changed   *)
(* by setoption commands.                                                  *)
(***************************************************************************)
IdlePos == [var |-> CHESS_VARIANT, st |-> <<>>]

InitOpt ==
  /\ pos = IdlePos
  /\ stack = <<>>
  /\ snap = <<>>
  /\ lastOp = [op |-> "none", m |-> MOVE_NONE, fen |-> <<>>, valid |-> TRUE, n |-> 0]
  /\ undone = IdlePos
  /\ Options = InitOptions
  /\ optLog = NoOptLog
  /\ TT = InitTT(0)
  /\ ttLog = NoTTLog

NextOpt == SetOption

SpecOpt == InitOpt /\ [][NextOpt]_vars

\* The last setoption sent a spin option a number outside [min, max].
OptOutOfRange ==
  /\ optLog.name # ""
  /\ optLog.before.type = "spin"
  /\ IsNumber(optLog.v)
  /\ (stoi(optLog.v) < optLog.before.min \/ stoi(optLog.v) > optLog.before.max)

\* C9 as stated: a spin option assigned a value below its min holds min
\* afterwards, and one assigned a value above its max holds max.
C9_Clamped ==
  OptOutOfRange =>
    stoi(Options[optLog.name].currentValue) =
      (IF stoi(optLog.v) < optLog.before.min THEN optLog.before.min
       ELSE optLog.before.max)

\* C9 amended: a spin option assigned a value below its min or above its max
\* keeps the value it had before the assignment; it is not clamped, and its
\* on_change action is not triggered.
C9_Rejected ==
  OptOutOfRange =>
    /\ Options[optLog.name] = optLog.before
    /\ ~optLog.fired

\* An out-of-range assignment to a spin option that has an on_change action
\* and holds a value that is neither its min nor its max.
C9_Witness ==
  /\ OptOutOfRange
  /\ optLog.before.on_change
  /\ stoi(optLog.before.currentValue) \notin {optLog.before.min, optLog.before.max}
  /\ stoi(optLog.v) > optLog.before.max

\* The texts operator= turns away: nothing for an option that holds a value,
\* anything but true or false for a check option, a number outside
\* [min, max] for a spin option.
Rejects(o, v) ==
  \/ o.type # "button" /\ Len(v) = 0
  \/ o.type = "check" /\ v \notin {StrTrue, StrFalse}
  \/ o.type = "spin" /\ IsNumber(v) /\ (stoi(v) < o.min \/ stoi(v) > o.max)

\* C28: an assignment that Option::operator= rejects has no effect at all:
\* the option map, and with it the option's currentValue, is unchanged and
\* the on_change action is not triggered.
C28_RejectedNoEffect ==
  [][Rejects(Options[optLog'.name], optLog'.v) =>
       (Options' = Options /\ ~optLog'.fired)]_vars

\* A check option that has an on_change action was sent a text that is
\* neither true nor false.
C28_Witness ==
  /\ optLog.name # ""
  /\ optLog.before.type = "check"
  /\ optLog.before.on_change
  /\ optLog.v \notin {<<>>, StrTrue, StrFalse}

(***************************************************************************)
(* The transposition table specification: one thread storing, probing,     *)
(* starting searches and clearing.                                         *)
(***************************************************************************)
InitTTSpec ==
  /\ pos = IdlePos
  /\ stack = <<>>
  /\ snap = <<>>
  /\ lastOp = [op |-> "none", m |-> MOVE_NONE, fen |-> <<>>, valid |-> TRUE, n |-> 0]
  /\ undone = IdlePos
  /\ Options = InitOptions
  /\ optLog = NoOptLog
  /\ \E g \in {0, 252} : TT = InitTT(g)
  /\ ttLog = NoTTLog

NextTT == Store \/ Probe \/ NewSearch \/ Clear

SpecTT == InitTTSpec /\ [][NextTT]_vars

FenCastle ==
  <<"r", "3", "k", "2", "r", "/", "8", "/", "8", "/", "8", "/", "8", "/",
    "8", "/", "8", "/", "R", "3", "K", "2", "R", " ", "w", " ", "K", "Q",
    "k", "q", " ", "-", " ", "0", " ", "1">>

\* chess, a promotion and an en-passant capture that is pinned: 7k/1P6/8/K1pP3r/8/8/8/8 w - c6 0 2
FenPinnedEp ==
  <<"7", "k", "/", "1", "P", "6", "/", "8", "/", "K", "1", "p", "P", "3",
    "r", "/", "8", "/", "8", "/", "8", "/", "8", " ", "w", " ", "-", " ",
    "c", "6", " ", "0", " ", "2">>

\* chess, a double push that can be captured en passant: 4k3/8/8/8/1p6/8/P7/4K3 w - - 0 1
FenDoublePush ==
  <<"4", "k", "3", "/", "8", "/", "8", "/", "8", "/", "1", "p", "6", "/",
    "8", "/", "P", "7", "/", "4", "K", "3", " ", "w", " ", "-", " ", "-",
    " ", "0", " ", "1">>

\* chess, the side to move is in check and has a pinned piece: 4r2k/8/8/b7/8/8/3N4/R3K3 w Q - 0 1
FenInCheck ==
  <<"4", "r", "2", "k", "/", "8", "/", "8", "/", "b", "7", "/", "8", "/",
    "8", "/", "3", "N", "4", "/", "R", "3", "K", "3", " ", "w", " ", "Q",
    " ", "-", " ", "0", " ", "1">>

\* chess960, castling with the rooks on b1 and g1: 1rk3r1/8/8/8/8/8/8/1RK3R1 w BGbg - 0 1
Fen960 ==
  <<"1", "r", "k", "3", "r", "1", "/", "8", "/", "8", "/", "8", "/", "8",
    "/", "8", "/", "8", "/", "1", "R", "K", "3", "R", "1", " ", "w", " ",
    "B", "G", "b", "g", " ", "-", " ", "0", " ", "1">>

\* three-check, white has given two checks: 7K/8/8/R7/8/8/1p6/4k3 w - - 0 1 +2+0
FenThreeCheck ==
  <<"7", "K", "/", "8", "/", "8", "/", "R", "7", "/", "8", "/", "8", "/",
    "1", "p", "6", "/", "4", "k", "3", " ", "w", " ", "-", " ", "-", " ",
    "0", " ", "1", " ", "+", "2", "+", "0">>

\* crazyhouse, a promoted queen gives check: 4k3/8/8/8/8/8/4q~3/3K4[Nn] w - - 0 1
FenHouseCheck ==
  <<"4", "k", "3", "/", "8", "/", "8", "/", "8", "/", "8", "/", "8", "/",
    "4", "q", "~", "3", "/", "3", "K", "4", "[", "N", "n", "]", " ", "w",
    " ", "-", " ", "-", " ", "0", " ", "1">>

\* crazyhouse, a pawn in hand and a pawn about to promote: 4k3/P7/8/8/8/8/8/4K3[P] w - - 0 1
FenHouseDrop ==
  <<"4", "k", "3", "/", "P", "7", "/", "8", "/", "8", "/", "8", "/", "8",
    "/", "8", "/", "4", "K", "3", "[", "P", "]", " ", "w", " ", "-",
    " ", "-", " ", "0", " ", "1">>

\* atomic, a capture next to a castling rook: rn2k3/8/8/8/8/8/7B/4K2R w Kq - 0 1
FenAtomicBlast ==
  <<"r", "n", "2", "k", "3", "/", "8", "/", "8", "/", "8", "/", "8", "/",
    "8", "/", "7", "B", "/", "4", "K", "2", "R", " ", "w", " ", "K", "q",
    " ", "-", " ", "0", " ", "1">>

\* atomic, in check with a capture that explodes the enemy king: 4r1k1/7p/8/7Q/8/8/8/4K3 w - - 0 1
FenAtomicWin ==
  <<"4", "r", "1", "k", "1", "/", "7", "p", "/", "8", "/", "7", "Q", "/",
    "8", "/", "8", "/", "8", "/", "4", "K", "3", " ", "w", " ", "-", " ",
    "-", " ", "0", " ", "1">>

\* atomic, adjacent kings: 8/8/8/8/8/3k4/3K3r/8 w - - 0 1
FenAtomicKings ==
  <<"8", "/", "8", "/", "8", "/", "8", "/", "8", "/", "3", "k", "4", "/",
    "3", "K", "3", "r", "/", "8", " ", "w", " ", "-", " ", "-", " ", "0",
    " ", "1">>

\* antichess, captures are forced: 7r/6P1/8/8/8/2p5/1P6/K7 w - - 0 1
FenAntiCapture ==
  <<"7", "r", "/", "6", "P", "1", "/", "8", "/", "8", "/", "8", "/", "2",
    "p", "5", "/", "1", "P", "6", "/", "K", "7", " ", "w", " ", "-", " ",
    "-", " ", "0", " ", "1">>

\* antichess, no capture available: 8/6P1/8/8/8/p7/8/K6k w - - 0 1
FenAntiFree ==
  <<"8", "/", "6", "P", "1", "/", "8", "/", "8", "/", "8", "/", "p", "7",
    "/", "8", "/", "K", "6", "k", " ", "w", " ", "-", " ", "-", " ", "0",
    " ", "1">>

FenInputs ==
  {[fen |-> FenCastle, v |-> CHESS_VARIANT, chess960 |-> FALSE],
   [fen |-> FenPinnedEp, v |-> CHESS_VARIANT, chess960 |-> FALSE],
   [fen |-> FenDoublePush, v |-> CHESS_VARIANT, chess960 |-> FALSE],
   [fen |-> FenInCheck, v |-> CHESS_VARIANT, chess960 |-> FALSE],
   [fen |-> Fen960, v |-> CHESS_VARIANT, chess960 |-> TRUE],
   [fen |-> FenThreeCheck, v |-> THREECHECK_VARIANT, chess960 |-> FALSE],
   [fen |-> FenHouseCheck, v |-> CRAZYHOUSE_VARIANT, chess960 |-> FALSE],
   [fen |-> FenHouseDrop, v |-> CRAZYHOUSE_VARIANT, chess960 |-> FALSE],
   [fen |-> FenAtomicBlast, v |-> ATOMIC_VARIANT, chess960 |-> FALSE],
   [fen |-> FenAtomicWin, v |-> ATOMIC_VARIANT, chess960 |-> FALSE],
   [fen |-> FenAtomicKings, v |-> ATOMIC_VARIANT, chess960 |-> FALSE],
   [fen |-> FenAntiCapture, v |-> ANTI_VARIANT, chess960 |-> FALSE],
   [fen |-> FenAntiFree, v |-> ANTI_VARIANT, chess960 |-> FALSE]}

NoOp == [op |-> "none", m |-> MOVE_NONE, fen |-> <<>>, valid |-> TRUE, n |-> 0]

Init ==
  /\ \E f \in FenInputs : pos = Position_set(IdlePos, f.fen, f.chess960, f.v)
  /\ stack = <<>>
  /\ snap = <<>>
  /\ lastOp = NoOp
  /\ undone = IdlePos
  /\ Options = InitOptions
  /\ optLog = NoOptLog
  /\ TT = InitTT(0)
  /\ ttLog = NoTTLog

DoMove ==
  /\ lastOp.n < MaxOps
  /\ Len(stack) < MaxPly
  /\ \E m \in generate_LEGAL(pos) :
       /\ pos' = do_move(pos, m, gives_check(pos, m))
       /\ stack' = Append(stack, m)
       /\ lastOp' = [NoOp EXCEPT !.n = lastOp.n + 1, !.op = "do", !.m = m]
  /\ snap' = Append(snap, pos)
  /\ undone' = IdlePos
  /\ UNCHANGED <<Options, optLog, TT, ttLog>>

UndoMove ==
  /\ lastOp.n < MaxOps
  /\ stack # <<>>
  /\ stack[Len(stack)] # MOVE_NULL
  /\ pos' = undo_move(pos, stack[Len(stack)])
  /\ undone' = snap[Len(snap)]
  /\ lastOp' = [NoOp EXCEPT !.n = lastOp.n + 1, !.op = "undo", !.m = stack[Len(stack)]]
  /\ stack' = SubSeq(stack, 1, Len(stack) - 1)
  /\ snap' = SubSeq(snap, 1, Len(snap) - 1)
  /\ UNCHANGED <<Options, optLog, TT, ttLog>>

\* do_null_move asserts that the side to move is not in check and, in
\* antichess, has no capture; it is not made once the variant game is over
DoNullMove ==
  /\ lastOp.n < MaxOps
  /\ Len(stack) < MaxPly
  /\ checkers(pos) = {}
  /\ ~(is_anti(pos) /\ can_capture(pos))
  /\ ~is_variant_end(pos)
  /\ pos' = do_null_move(pos)
  /\ stack' = Append(stack, MOVE_NULL)
  /\ snap' = Append(snap, pos)
  /\ lastOp' = [NoOp EXCEPT !.n = lastOp.n + 1, !.op = "donull", !.m = MOVE_NULL]
  /\ undone' = IdlePos
  /\ UNCHANGED <<Options, optLog, TT, ttLog>>

UndoNullMove ==
  /\ lastOp.n < MaxOps
  /\ stack # <<>>
  /\ stack[Len(stack)] = MOVE_NULL
  /\ pos' = undo_null_move(pos)
  /\ undone' = snap[Len(snap)]
  /\ lastOp' = [NoOp EXCEPT !.n = lastOp.n + 1, !.op = "undonull", !.m = MOVE_NULL]
  /\ stack' = SubSeq(stack, 1, Len(stack) - 1)
  /\ snap' = SubSeq(snap, 1, Len(snap) - 1)
  /\ UNCHANGED <<Options, optLog, TT, ttLog>>

Next == DoMove \/ UndoMove \/ DoNullMove \/ UndoNullMove

Spec == Init /\ [][Next]_vars

(***************************************************************************)
(* Claims about do_move, undo_move and the state they maintain.            *)
(***************************************************************************)
\* the squares a piece list holds in its first pieceCount entries, with the
\* index of every one of them pointing back at its entry
ListConsistent(p) ==
  \A pc \in Pieces : \A i \in 0..15 :
    IF i < p.pieceCount[pc]
    THEN /\ p.pieceList[pc][i] \in Squares
         /\ p.board[p.pieceList[pc][i]] = pc
         /\ p.index[p.pieceList[pc][i]] = i
    ELSE p.pieceList[pc][i] = SQ_NONE

ListSquares(p, pc) == {p.pieceList[pc][i] : i \in 0..15}

\* equal in every field but the order of the piece lists and index[]
SameButListOrder(a, b) ==
  /\ [a EXCEPT !.index = b.index, !.pieceList = b.pieceList] = b
  /\ \A pc \in 0..15 : ListSquares(a, pc) = ListSquares(b, pc)
  /\ ListConsistent(a)

C2_KeyFromScratch == St(pos).key = set_state_of(pos).key

\* three operations were made, the last one a move that changed the
\* castling rights, after a move or a null move had been taken back
C2_Witness ==
  /\ lastOp.op = "do"
  /\ lastOp.n = 3
  /\ Len(stack) = 1
  /\ St(pos).castlingRights # St(snap[1]).castlingRights
  /\ St(pos).key # St(snap[1]).key

(***************************************************************************)
(* Claims about the move generators, legal() and the checkers bitboard.    *)
(* Attacks are read off board[] alone, one piece at a time.                *)
(***************************************************************************)
BoardOcc(q) == {s \in Squares : q.board[s] # NO_PIECE}

AttacksFrom(pc, s, occ) ==
  IF type_of_piece(pc) = PAWN THEN PawnAttacks(color_of(pc), s)
  ELSE attacks_bb(type_of_piece(pc), s, occ)

KingSquares(q, c) == {s \in Squares : q.board[s] = make_piece(c, KING)}

\* the pieces of the other colour that attack a king of colour c
AttackersOfKing(q, c) ==
  {s \in BoardOcc(q) :
     /\ color_of(q.board[s]) = Flip(c)
     /\ KingSquares(q, c) \cap AttacksFrom(q.board[s], s, BoardOcc(q)) # {}}

KingsTouch(q) ==
  \E a \in KingSquares(q, WHITE) : \E b \in KingSquares(q, BLACK) : b \in KingAttacks(a)

\* the moves generate<LEGAL> filters
PseudoMoves(p) ==
  IF checkers(p) # {} THEN generate_EVASIONS(p) ELSE generate_NON_EVASIONS(p)

\* both kings are on the board, or the variant has no royal king
KingsOnBoard(p) ==
  is_anti(p) \/ (KingSquares(p, WHITE) # {} /\ KingSquares(p, BLACK) # {})

\* the king of the side that moved is safe, as C3 states it
MoverSafe(q, us) ==
  IF is_anti(q) THEN TRUE
  ELSE IF is_atomic(q)
  THEN KingSquares(q, us) # {} /\ (AttackersOfKing(q, us) = {} \/ KingsTouch(q))
  ELSE AttackersOfKing(q, us) = {}

After(p, m) == do_move(p, m, gives_check(p, m))

ExpectedCheckers(p) ==
  IF is_anti(p) THEN {}
  ELSE IF is_atomic(p) /\ KingsTouch(p) THEN {}
  ELSE AttackersOfKing(p, p.sideToMove)

\* C4: after set and after every do_move with a legal move checkersBB is
\* exactly the set of enemy pieces that attack the king of the side to move;
\* it is empty in antichess and in atomic when the kings are adjacent.
C4_CheckersExact ==
  lastOp.op \in {"none", "do"} => checkers(pos) = ExpectedCheckers(pos)

\* a move has just given a discovered or direct check
C4_Witness ==
  /\ lastOp.op = "do"
  /\ checkers(pos) # {}
  /\ to_sq(lastOp.m) \notin checkers(pos)

\* the generated moves that legal() accepts
LegalFiltered(p) == {m \in PseudoMoves(p) : legal(p, m)}

FenRepStalemate ==
  <<"7", "k", "/", "4", "Q", "3", "/", "8", "/", "8", "/", "8", "/", "8",
    "/", "8", "/", "K", "7", " ", "w", " ", "-", " ", "-", " ", "9", "9",
    " ", "6", "0">>

\* chess, one move from mate, rule50 at 99: 6k1/5ppp/8/8/8/8/8/K3R3 w - - 99 60
FenRepMate ==
  <<"6", "k", "1", "/", "5", "p", "p", "p", "/", "8", "/", "8", "/", "8",
    "/", "8", "/", "8", "/", "K", "3", "R", "3", " ", "w", " ", "-", " ",
    "-", " ", "9", "9", " ", "6", "0">>

\* three-check, a rook that can check and return: 4k3/8/8/8/8/8/8/R5K1 w - - 0 1 +0+0
FenRepThreeCheck ==
  <<"4", "k", "3", "/", "8", "/", "8", "/", "8", "/", "8", "/", "8", "/",
    "8", "/", "R", "5", "K", "1", " ", "w", " ", "-", " ", "-", " ", "0",
    " ", "1", " ", "+", "0", "+", "0">>

\* crazyhouse, bare kings, rule50 at 99: 4k3/8/8/8/8/8/8/K7 w - - 99 60
FenRepHouse ==
  <<"4", "k", "3", "/", "8", "/", "8", "/", "8", "/", "8", "/", "8", "/",
    "8", "/", "K", "7", " ", "w", " ", "-", " ", "-", " ", "9", "9", " ",
    "6", "0">>
RepInputs ==
  {[fen |-> FenRepStalemate, v |-> CHESS_VARIANT, chess960 |-> FALSE],
   [fen |-> FenRepMate, v |-> CHESS_VARIANT, chess960 |-> FALSE],
   [fen |-> FenRepThreeCheck, v |-> THREECHECK_VARIANT, chess960 |-> FALSE],
   [fen |-> FenRepHouse, v |-> CRAZYHOUSE_VARIANT, chess960 |-> FALSE]}

\* the moves the two sides choose from: a1b1 b1a1 a1e1 e1a1 e1e8 e7f7 and
\* h8g8 g8h8 e8d8 d8e8
RepMoves ==
  {make_move(make_square(0, 0), make_square(1, 0)),
   make_move(make_square(1, 0), make_square(0, 0)),
   make_move(make_square(0, 0), make_square(4, 0)),
   make_move(make_square(4, 0), make_square(0, 0)),
   make_move(make_square(4, 0), make_square(4, 7)),
   make_move(make_square(4, 6), make_square(5, 6)),
   make_move(make_square(7, 7), make_square(6, 7)),
   make_move(make_square(6, 7), make_square(7, 7)),
   make_move(make_square(4, 7), make_square(3, 7)),
   make_move(make_square(3, 7), make_square(4, 7))}

InitRep ==
  /\ \E f \in RepInputs : pos = Position_set(IdlePos, f.fen, f.chess960, f.v)
  /\ stack = <<>>
  /\ snap = <<>>
  /\ lastOp = NoOp
  /\ undone = IdlePos
  /\ Options = InitOptions
  /\ optLog = NoOptLog
  /\ TT = InitTT(0)
  /\ ttLog = NoTTLog

RepMove ==
  /\ Len(stack) < MaxRepPly
  /\ \E m \in generate_LEGAL(pos) \cap RepMoves :
       /\ pos' = do_move(pos, m, gives_check(pos, m))
       /\ stack' = Append(stack, m)
       /\ lastOp' = [NoOp EXCEPT !.n = lastOp.n + 1, !.op = "do", !.m = m]
  /\ snap' = Append(snap, pos)
  /\ UNCHANGED <<undone, Options, optLog, TT, ttLog>>

RepNullMove ==
  /\ Len(stack) < MaxRepPly
  /\ checkers(pos) = {}
  /\ ~is_variant_end(pos)
  /\ pos' = do_null_move(pos)
  /\ stack' = Append(stack, MOVE_NULL)
  /\ snap' = Append(snap, pos)
  /\ lastOp' = [NoOp EXCEPT !.n = lastOp.n + 1, !.op = "donull", !.m = MOVE_NULL]
  /\ UNCHANGED <<undone, Options, optLog, TT, ttLog>>

NextRep == RepMove \/ RepNullMove

SpecRep == InitRep /\ [][NextRep]_vars

\* the same position as C6 names it: placement, side to move, castling
\* rights and en passant square
SamePlacement(a, b) ==
  /\ a.board = b.board
  /\ a.sideToMove = b.sideToMove
  /\ St(a).castlingRights = St(b).castlingRights
  /\ St(a).epSquare = St(b).epSquare

\* the same in the hands and the checks given as well
SameCounted(a, b) ==
  /\ SamePlacement(a, b)
  /\ a.pieceCountInHand = b.pieceCountInHand
  /\ St(a).checksGiven = St(b).checksGiven

NoNullMoves == \A i \in 1..Len(stack) : stack[i] # MOVE_NULL

\* how many plies back the earlier positions of the line are that equal the
\* current one
EarlierPlacement == {d \in 1..Len(snap) : SamePlacement(snap[Len(snap) + 1 - d], pos)}

EarlierCounted == {d \in 1..Len(snap) : SameCounted(snap[Len(snap) + 1 - d], pos)}

\* C6 as stated: when the same placement, side to move, castling rights and
\* en passant square occur for the third time in a line of do_move calls,
\* is_draw(ply) is true for every ply > 0.
C6_ThirdOccurrence ==
  (NoNullMoves /\ Cardinality(EarlierPlacement) = 2) =>
    \A ply \in 1..Len(stack) : is_draw(pos, ply)

\* C6 amended: the same when the three occurrences also agree in the
\* Crazyhouse hands and the Three-Check counters.
C6_ThirdOccurrenceCounted ==
  (NoNullMoves /\ Cardinality(EarlierCounted) = 2) =>
    \A ply \in 1..Len(stack) : is_draw(pos, ply)

\* a third occurrence, eight plies after the first, found as a threefold
\* repetition although rule50 is below 100
C6_Witness ==
  /\ NoNullMoves
  /\ EarlierCounted = {4, 8}
  /\ St(pos).repetition = -4
  /\ St(pos).rule50 < 100
  /\ is_draw(pos, 1)

\* the earlier occurrences do_move can see: not further back than the last
\* null move or, except in Crazyhouse, the last capture or pawn move
EarlierInReach == {d \in EarlierCounted : d <= RepetitionEnd(pos)}

\* C7 as stated: is_draw(ply) is true exactly when rule50 exceeds 99 and the
\* side to move has a legal move, or the position repeats an earlier one
\* fewer than ply plies back, or repeats two earlier ones; in every variant.
C7_DrawIff ==
  \A ply \in 0..Len(stack) :
    is_draw(pos, ply) <=>
      \/ St(pos).rule50 > 99 /\ generate_LEGAL(pos) # {}
      \/ \E d \in EarlierCounted : d < ply
      \/ Cardinality(EarlierCounted) >= 2

\* C7 amended: is_draw(ply) is true exactly when, outside Crazyhouse, rule50
\* exceeds 99 and the side to move is not in check or has a legal move, or
\* the position repeats one in reach fewer than ply plies back, or repeats
\* two in reach.
C7_DrawIffInReach ==
  \A ply \in 0..Len(stack) :
    is_draw(pos, ply) <=>
      \/ /\ ~is_house(pos)
         /\ St(pos).rule50 > 99
         /\ (checkers(pos) = {} \/ generate_LEGAL(pos) # {})
      \/ \E d \in EarlierInReach : d < ply
      \/ Cardinality(EarlierInReach) >= 2

\* a stalemate with rule50 above 99 and no repetition, where is_draw is true
C7_Witness ==
  /\ St(pos).rule50 > 99
  /\ checkers(pos) = {}
  /\ generate_LEGAL(pos) = {}
  /\ EarlierCounted = {}
  /\ stack # <<>>
  /\ is_draw(pos, Len(stack))

\* the plies from the root that has_game_cycle is asked with
CyclePlies == {0, 4, MaxRepPly + 1}

\* the ancestor i plies back differs from the position by one reversible
\* move whose path is clear
CycleAncestor(p, i) ==
  /\ i < Len(p.st)
  /\ \E e \in CuckooEntries(Xor(St(p).key, p.st[Len(p.st) - i].key)) :
       between_bb(e[2], e[3]) \cap pieces(p) = {}

\* C15 as stated: has_game_cycle(ply) returns true only when the XOR of the
\* key with the key of an ancestor an even number of plies back is a key of
\* the cuckoo tables and no piece stands between the squares of its move.
C15_CycleEvenAncestor ==
  \A ply \in CyclePlies :
    has_game_cycle(pos, ply) =>
      \E i \in 1..Len(pos.st) : i % 2 = 0 /\ CycleAncestor(pos, i)

\* C15 amended: has_game_cycle(ply) returns true only when the XOR of the
\* key with the key of an ancestor an odd number of plies back, at least 3
\* and at most min(rule50, pliesFromNull), is a key of the cuckoo tables and
\* no piece stands between the squares of its move.
C15_CycleOddAncestor ==
  \A ply \in CyclePlies :
    has_game_cycle(pos, ply) =>
      \E i \in 3..Len(pos.st) :
        /\ i % 2 = 1
        /\ i <= St(pos).rule50
        /\ i <= St(pos).pliesFromNull
        /\ CycleAncestor(pos, i)

\* a cycle is reported below the root before the position has repeated,
\* and at the root only after it has
C15_Witness ==
  /\ has_game_cycle(pos, 4)
  /\ ~has_game_cycle(pos, 0)
  /\ St(pos).repetition = 0
  /\ St(pos).pliesFromNull = 3

(***************************************************************************)
(* The set specification: Position::set called again and again on the same *)
(* object with valid and invalid FEN strings.  undone holds the object     *)
(* before the call.  Every invalid FEN is listed with the valid FEN it is  *)
(* read as.                                                                *)
(***************************************************************************)
\* valid: 4k3/8/8/8/8/8/8/4K3 w - - 0 1
FenSetKings ==
  <<"4", "k", "3", "/", "8", "/", "8", "/", "8", "/", "8", "/", "8", "/",
    "8", "/", "4", "K", "3", " ", "w", " ", "-", " ", "-", " ", "0", " ",
    "1">>

\* valid, black to move: 4k3/8/8/8/8/8/8/4K3 b - - 0 1
FenSetBlack ==
  <<"4", "k", "3", "/", "8", "/", "8", "/", "8", "/", "8", "/", "8", "/",
    "8", "/", "4", "K", "3", " ", "b", " ", "-", " ", "-", " ", "0", " ",
    "1">>

\* valid, the en passant field empty and the clock at 9: 4k3/8/8/8/8/8/8/4K3 w - - 9 1
FenSetClock ==
  <<"4", "k", "3", "/", "8", "/", "8", "/", "8", "/", "8", "/", "8", "/",
    "8", "/", "4", "K", "3", " ", "w", " ", "-", " ", "-", " ", "9", " ",
    "1">>

\* valid, castling rights: r3k2r/8/8/8/8/8/8/R3K2R w KQkq - 0 1
FenSetRooks ==
  <<"r", "3", "k", "2", "r", "/", "8", "/", "8", "/", "8", "/", "8", "/",
    "8", "/", "8", "/", "R", "3", "K", "2", "R", " ", "w", " ", "K", "Q",
    "k", "q", " ", "-", " ", "0", " ", "1">>

\* valid, an en passant square: 4k3/8/8/3pP3/8/8/8/4K3 w - d6 0 3
FenSetEp ==
  <<"4", "k", "3", "/", "8", "/", "8", "/", "3", "p", "P", "3", "/", "8",
    "/", "8", "/", "8", "/", "4", "K", "3", " ", "w", " ", "-", " ", "d",
    "6", " ", "0", " ", "3">>

\* a letter that names no piece in the placement: 4k3/8/8/8/8/8/8/4K1x1 w - - 0 1
FenBadPlacement ==
  <<"4", "k", "3", "/", "8", "/", "8", "/", "8", "/", "8", "/", "8", "/",
    "8", "/", "4", "K", "1", "x", "1", " ", "w", " ", "-", " ", "-", " ",
    "0", " ", "1">>

\* a side to move that is neither w nor b: 4k3/8/8/8/8/8/8/4K3 x - - 0 1
FenBadSide ==
  <<"4", "k", "3", "/", "8", "/", "8", "/", "8", "/", "8", "/", "8", "/",
    "8", "/", "4", "K", "3", " ", "x", " ", "-", " ", "-", " ", "0", " ",
    "1">>

\* a castling field that names no right: 4k3/8/8/8/8/8/8/4K3 w X - 0 1
FenBadCastling ==
  <<"4", "k", "3", "/", "8", "/", "8", "/", "8", "/", "8", "/", "8", "/",
    "8", "/", "4", "K", "3", " ", "w", " ", "X", " ", "-", " ", "0", " ",
    "1">>

\* an en passant field that names no square: 4k3/8/8/8/8/8/8/4K3 w - z9 0 1
FenBadEp ==
  <<"4", "k", "3", "/", "8", "/", "8", "/", "8", "/", "8", "/", "8", "/",
    "8", "/", "4", "K", "3", " ", "w", " ", "-", " ", "z", "9", " ", "0",
    " ", "1">>

\* a fullmove number of 0: 4k3/8/8/8/8/8/8/4K3 w - - 0 0
FenBadMove ==
  <<"4", "k", "3", "/", "8", "/", "8", "/", "8", "/", "8", "/", "8", "/",
    "8", "/", "4", "K", "3", " ", "w", " ", "-", " ", "-", " ", "0", " ",
    "0">>

\* a halfmove clock beyond any game: 4k3/8/8/8/8/8/8/4K3 w - - 150 1
FenBadClock ==
  <<"4", "k", "3", "/", "8", "/", "8", "/", "8", "/", "8", "/", "8", "/",
    "8", "/", "4", "K", "3", " ", "w", " ", "-", " ", "-", " ", "1", "5",
    "0", " ", "1">>
SetInputs ==
  {[fen |-> FenSetKings, valid |-> TRUE, like |-> FenSetKings],
   [fen |-> FenSetBlack, valid |-> TRUE, like |-> FenSetBlack],
   [fen |-> FenSetClock, valid |-> TRUE, like |-> FenSetClock],
   [fen |-> FenSetRooks, valid |-> TRUE, like |-> FenSetRooks],
   [fen |-> FenSetEp, valid |-> TRUE, like |-> FenSetEp],
   [fen |-> FenBadPlacement, valid |-> FALSE, like |-> FenSetKings],
   [fen |-> FenBadSide, valid |-> FALSE, like |-> FenSetBlack],
   [fen |-> FenBadCastling, valid |-> FALSE, like |-> FenSetKings],
   [fen |-> FenBadEp, valid |-> FALSE, like |-> FenSetClock],
   [fen |-> FenBadMove, valid |-> FALSE, like |-> FenSetKings],
   [fen |-> FenBadClock, valid |-> FALSE, like |-> FenBadClock]}

InitSet ==
  /\ \E f \in SetInputs :
       /\ f.valid
       /\ pos = Position_set(IdlePos, f.fen, FALSE, CHESS_VARIANT)
  /\ stack = <<>>
  /\ snap = <<>>
  /\ lastOp = NoOp
  /\ undone = IdlePos
  /\ Options = InitOptions
  /\ optLog = NoOptLog
  /\ TT = InitTT(0)
  /\ ttLog = NoTTLog

SetFen ==
  /\ lastOp.n < MaxSets
  /\ \E f \in SetInputs :
       /\ pos' = Position_set(pos, f.fen, FALSE, CHESS_VARIANT)
       /\ lastOp' = [NoOp EXCEPT !.n = lastOp.n + 1, !.op = "set", !.fen = f.fen,
                                 !.valid = f.valid]
  /\ undone' = pos
  /\ UNCHANGED <<stack, snap, Options, optLog, TT, ttLog>>

NextSet == SetFen

SpecSet == InitSet /\ [][NextSet]_vars

\* the valid FEN the last FEN is read as
LikeOf(fen) == (CHOOSE f \in SetInputs : f.fen = fen).like

\* C8 as stated: a set with an invalid FEN leaves the Position and its
\* StateInfo exactly as they were before the call.
C8_InvalidUnchanged ==
  (lastOp.op = "set" /\ ~lastOp.valid) => pos = undone

\* C8 amended: set reports nothing; it clears the object and then takes from
\* the FEN what it can read, so that the result does not depend on what the
\* object held before: a letter that names no piece or no castling right is
\* skipped, a side to move other than w is black, an unreadable en passant
\* field leaves no en passant square, a fullmove number of 0 is read as 1
\* and a halfmove clock is stored as it is.
C8_InvalidReadAsFar ==
  (lastOp.op = "set" /\ ~lastOp.valid) =>
    /\ pos = Position_set(IdlePos, lastOp.fen, FALSE, CHESS_VARIANT)
    /\ pos = Position_set(IdlePos, LikeOf(lastOp.fen), FALSE, CHESS_VARIANT)
    /\ lastOp.fen = FenBadClock => St(pos).rule50 = 150

\* an object that held castling rights and an en passant square is set
\* with an invalid FEN and holds another position afterwards
C8_Witness ==
  /\ lastOp.op = "set"
  /\ ~lastOp.valid
  /\ St(undone).castlingRights # {}
  /\ pos # undone
  /\ lastOp.fen = FenBadEp
  /\ St(pos).rule50 = 9

\* C12: after any number of new_search() calls, the 8-bit wrap included,
\* the two low bits of generation are zero; an entry saved with
\* genBound8 = generation | bound returns from bound() the bound that was
\* stored, and its other six bits are the generation at the time of the store.
C12_GenerationBits ==
  /\ TT.generation % 4 = 0
  /\ ttLog.op = "probe" =>
       /\ TTEntry_bound(ttLog.entry) = ttLog.in.b
       /\ (ttLog.entry.genBound8 \div 4) * 4 = ttLog.gen

\* an entry stored with both bound bits set after the generation wrapped
\* from 252 to 0
C12_Witness ==
  /\ ttLog.op = "probe"
  /\ ttLog.searches = 1
  /\ ttLog.gen = 0
  /\ TT.generation = 0
  /\ ttLog.in.b = BOUND_EXACT
  /\ ttLog.entry.genBound8 = 3

(***************************************************************************)
(* The shared table specification: several threads store into and probe    *)
(* the same table without locks.  TTEntry::save is six plain stores, one   *)
(* per member, and the stores of different threads interleave; a 16-bit    *)
(* member is written as a whole.  The scan of the cluster that picks the   *)
(* entry to write races with the other threads' stores, so it may end on   *)
(* any entry of the cluster.  ttLog holds every thread's position in its   *)
(* store (th), the keys written to each cluster (written) and the last     *)
(* probe.                                                                  *)
(***************************************************************************)
Threads == 1..NumThreads

SaveMembers == <<"key16", "genBound8", "depth8", "move16", "value16", "evalValue16">>

IdleThread ==
  [pc |-> 0, slot |-> 0, k |-> 0, e |-> EmptyEntry]

RaceKeys == {[hi |-> h, lo |-> 2] : h \in {0, 2}}

RaceInputs == {x \in StoreInputs : x.b # BOUND_LOWER}

NoRaceLog ==
  [op |-> "none", th |-> [t \in Threads |-> IdleThread], written |-> {},
   stores |-> 0, key |-> [hi |-> 0, lo |-> 0], found |-> FALSE,
   entry |-> EmptyEntry]

InitRace ==
  /\ pos = IdlePos
  /\ stack = <<>>
  /\ snap = <<>>
  /\ lastOp = NoOp
  /\ undone = IdlePos
  /\ Options = InitOptions
  /\ optLog = NoOptLog
  /\ TT = InitTT(0)
  /\ ttLog = NoRaceLog

Cluster(t, key) == first_entry(t, key)..(first_entry(t, key) + ClusterSize - 1)

\* a thread enters store(): it picks the entry and the values save() writes
RaceStore(t) ==
  /\ ttLog.th[t].pc = 0
  /\ ttLog.stores < MaxRaceStores
  /\ \E key \in RaceKeys, x \in RaceInputs :
     \E slot \in Cluster(TT, key) :
       ttLog' = [ttLog EXCEPT
                   !.stores = @ + 1,
                   !.th[t] = [pc |-> 1, slot |-> slot, k |-> key.hi,
                              e |-> TTEntry_save(key.hi, x.v, x.b, x.d, x.m,
                                                 TT.generation, x.ev)]]
  /\ UNCHANGED <<pos, stack, snap, lastOp, undone, Options, optLog, TT>>

\* the next store of save(): one member of the entry
RaceSave(t) ==
  /\ ttLog.th[t].pc \in 1..Len(SaveMembers)
  /\ TT' = [TT EXCEPT !.table[ttLog.th[t].slot][SaveMembers[ttLog.th[t].pc]] =
                         ttLog.th[t].e[SaveMembers[ttLog.th[t].pc]]]
  /\ ttLog' = [ttLog EXCEPT
                 !.th[t] = IF @.pc = Len(SaveMembers) THEN IdleThread
                           ELSE [@ EXCEPT !.pc = @ + 1],
                 !.written = IF ttLog.th[t].pc = 1
                             THEN @ \cup {<<ttLog.th[t].slot, ttLog.th[t].k>>}
                             ELSE @]
  /\ UNCHANGED <<pos, stack, snap, lastOp, undone, Options, optLog>>

\* a thread probes while the others may be in the middle of a save
RaceProbe(t) ==
  /\ ttLog.th[t].pc = 0
  /\ \E key \in RaceKeys :
       ttLog' = [ttLog EXCEPT !.op = "probe", !.key = key,
                              !.found = TT_probe(TT, key).found,
                              !.entry = TT_probe(TT, key).entry]
  /\ UNCHANGED <<pos, stack, snap, lastOp, undone, Options, optLog, TT>>

NextRace == \E t \in Threads : RaceStore(t) \/ RaceSave(t) \/ RaceProbe(t)

SpecRace == InitRace /\ [][NextRace]_vars

\* the keys that stores have written into the cluster of the probed key
WrittenKeys == {w[2] : w \in {w \in ttLog.written : w[1] \in Cluster(TT, ttLog.key)}}

\* C11 as stated: an entry that a probe returns as a hit carries a 16-bit
\* key that some store wrote into that cluster.
C11_HitWasStored ==
  (ttLog.op = "probe" /\ ttLog.found) => ttLog.entry.key16 \in WrittenKeys

\* C11 amended: an entry that a probe returns as a hit carries a 16-bit key
\* that some store wrote into that cluster, or the key 0 of an entry that
\* no store has written: a key whose 16 high bits are 0 hits an empty entry.
C11_HitWasStoredOrEmpty ==
  (ttLog.op = "probe" /\ ttLog.found) =>
    \/ ttLog.entry.key16 \in WrittenKeys
    \/ ttLog.entry = EmptyEntry /\ ttLog.key.hi = 0

\* a probe hits an entry that another thread is in the middle of saving
\* over an entry of another key: the members do not belong together
C11_Witness ==
  /\ ttLog.op = "probe"
  /\ ttLog.found
  /\ ttLog.entry.key16 = 2
  /\ ttLog.entry.value16 # 0
  /\ \E t \in Threads :
       /\ ttLog.th[t].pc \in 2..5
       /\ ttLog.th[t].k = 2
       /\ TT.table[ttLog.th[t].slot] = ttLog.entry
       /\ ttLog.th[t].e.value16 # ttLog.entry.value16

(***************************************************************************)
(* position.cpp: static exchange evaluation.                               *)
(***************************************************************************)
PawnValueMgAnti == -108

KnightValueMgAnti == -155

BishopValueMgAnti == -270

RookValueMgAnti == -472

QueenValueMgAnti == -114

KingValueMgAnti == -23

PawnValueMgAtomic == 244

KnightValueMgAtomic == 437

BishopValueMgAtomic == 552

RookValueMgAtomic == 787

QueenValueMgAtomic == 1447

PawnValueMgHouse == 149

KnightValueMgHouse == 447

BishopValueMgHouse == 450

RookValueMgHouse == 619

QueenValueMgHouse == 878

PawnValueMgThreeCheck == 119

KnightValueMgThreeCheck == 645

BishopValueMgThreeCheck == 693

RookValueMgThreeCheck == 1027

QueenValueMgThreeCheck == 1947

\* bb ^ s
Toggle(bb, s) == IF s \in bb THEN bb \ {s} ELSE bb \cup {s}

\* PieceValue[var][MG][pt], by piece type
PieceValueMg ==
  [v \in {CHESS_VARIANT, ANTI_VARIANT, ATOMIC_VARIANT, CRAZYHOUSE_VARIANT,
          THREECHECK_VARIANT} |->
     CASE v = ANTI_VARIANT ->
            <<PawnValueMgAnti, KnightValueMgAnti, BishopValueMgAnti,
              RookValueMgAnti, QueenValueMgAnti, KingValueMgAnti>>
       [] v = ATOMIC_VARIANT ->
            <<PawnValueMgAtomic, KnightValueMgAtomic, BishopValueMgAtomic,
              RookValueMgAtomic, QueenValueMgAtomic, 0>>
       [] v = CRAZYHOUSE_VARIANT ->
            <<PawnValueMgHouse, KnightValueMgHouse, BishopValueMgHouse,
              RookValueMgHouse, QueenValueMgHouse, 0>>
       [] v = THREECHECK_VARIANT ->
            <<PawnValueMgThreeCheck, KnightValueMgThreeCheck,
              BishopValueMgThreeCheck, RookValueMgThreeCheck,
              QueenValueMgThreeCheck, 0>>
       [] OTHER ->
            <<PawnValueMg, KnightValueMg, BishopValueMg, RookValueMg,
              QueenValueMg, 0>>]

\* PieceValue[var][MG][pc]
PieceValueOf(v, pc) ==
  IF type_of_piece(pc) \in PAWN..KING THEN PieceValueMg[v][type_of_piece(pc)] ELSE 0

\* mg_value(PSQT::psq[ATOMIC_VARIANT][pc][s]): the piece value, positive
\* for White and negative for Black; the square bonus is left out
PSQT_psq(pc, s) ==
  IF pc = NO_PIECE THEN 0
  ELSE IF color_of(pc) = WHITE THEN PieceValueOf(ATOMIC_VARIANT, pc)
       ELSE -PieceValueOf(ATOMIC_VARIANT, pc)

RECURSIVE SumPsq(_, _)
SumPsq(p, bb) ==
  IF bb = {} THEN 0
  ELSE PSQT_psq(piece_on(p, lsb(bb)), lsb(bb)) + SumPsq(p, bb \ {lsb(bb)})

\* the blast of see<ATOMIC_VARIANT>
SeeBlast(p, m, s) ==
  ((attacks_bb(KING, to_sq(m), {}) \cap (pieces(p) \ pieces_pt(p, PAWN)))
     \ {from_sq(m)}) \ (IF s # to_sq(m) THEN {s} ELSE {})

SeeBlastEval(p, m, us, nextVictim, s, blast) ==
  PSQT_psq(make_piece(us, nextVictim), from_sq(m)) + PSQT_psq(piece_on(p, s), s)
    + SumPsq(p, blast)

SeeAtomicOf(p, m, us, nextVictim, s, blast) ==
  IF blast \cap pieces_cpt(p, Flip(us), KING) # {} THEN VALUE_MATE
  ELSE IF s # to_sq(m) /\ blast \cap pieces_cpt(p, us, KING) # {} THEN -VALUE_MATE
  ELSE IF us = WHITE THEN -SeeBlastEval(p, m, us, nextVictim, s, blast)
       ELSE SeeBlastEval(p, m, us, nextVictim, s, blast)

\* Position::see<ATOMIC_VARIANT>(m, nextVictim, s)
see_ATOMIC(p, m, nextVictim, s) ==
  SeeAtomicOf(p, m, color_of(piece_on(p, from_sq(m))), nextVictim, s,
              SeeBlast(p, m, s))

\* the Atomic branch of see_ge
SeeGeAtomic(p, m, threshold, nextVictim, stm, occupied) ==
  IF capture(p, m)
  THEN see_ATOMIC(p, m, nextVictim, to_sq(m)) >= threshold + 1
  ELSE IF threshold > VALUE_ZERO THEN FALSE
  ELSE \A s \in ((attackers_to_occ(p, to_sq(m), occupied) \cap occupied)
                   \cap pieces_c(p, stm)) \ pieces_pt(p, KING) :
         ~(see_ATOMIC(p, m, nextVictim, s) < threshold)

\* the least valuable piece type among the attackers
SeeNextType(p, stmAttackers) ==
  CHOOSE pt \in PAWN..KING :
    /\ stmAttackers \cap pieces_pt(p, pt) # {}
    /\ \A q \in PAWN..KING : q < pt => stmAttackers \cap pieces_pt(p, q) = {}

\* the X-ray attackers behind the piece that captured
SeeXRay(p, pt, to, occupied) ==
  (IF pt \in {PAWN, BISHOP, QUEEN}
   THEN attacks_bb(BISHOP, to, occupied) \cap pieces_pt2(p, BISHOP, QUEEN) ELSE {})
  \cup
  (IF pt \in {ROOK, QUEEN}
   THEN attacks_bb(ROOK, to, occupied) \cap pieces_pt2(p, ROOK, QUEEN) ELSE {})

\* the attackers of stm that may capture: pinned pieces may not as long as
\* the pinners are on their original square
SeeStmAttackers(p, stm, attackers, occupied) ==
  IF attackers \cap pieces_c(p, stm) = {} THEN {}
  ELSE IF St(p).pinners[Flip(stm)] \cap occupied # {}
       THEN (attackers \cap pieces_c(p, stm)) \ St(p).blockersForKing[stm]
       ELSE attackers \cap pieces_c(p, stm)

\* the loop of see_ge, entered with stm already flipped and attackers
\* already restricted to occupied
RECURSIVE SeeLoop(_, _, _, _, _, _, _)
SeeCapture(p, to, stm, attackers, occupied, swap, res, pt, stmAttackers) ==
  IF pt = KING
  THEN (IF attackers \ pieces_c(p, stm) # {} THEN 1 - res ELSE res)
  ELSE IF PieceValueMg[CHESS_VARIANT][pt] - swap < res THEN res
  ELSE SeeLoop(p, to, Flip(stm),
               (attackers \cup SeeXRay(p, pt, to,
                  occupied \ {lsb(stmAttackers \cap pieces_pt(p, pt))}))
                 \cap (occupied \ {lsb(stmAttackers \cap pieces_pt(p, pt))}),
               occupied \ {lsb(stmAttackers \cap pieces_pt(p, pt))},
               PieceValueMg[CHESS_VARIANT][pt] - swap, res)

SeeLoop(p, to, stm, attackers, occupied, swap, res) ==
  IF SeeStmAttackers(p, stm, attackers, occupied) = {} THEN res
  ELSE SeeCapture(p, to, stm, attackers, occupied, swap, 1 - res,
                  SeeNextType(p, SeeStmAttackers(p, stm, attackers, occupied)),
                  SeeStmAttackers(p, stm, attackers, occupied))

\* a swap test that lets only the moves pass whose victim is worth less
\* than the threshold
SeeGeSwapAbove(p, m, threshold, pc, occupied) ==
  PieceValueOf(p.var, piece_on(p, to_sq(m))) - threshold < 0

\* see_ge from "int swap = ..." on; pc is the moving or dropped piece
SeeGeSwap(p, m, threshold, pc, occupied) ==
  IF PieceValueOf(p.var, piece_on(p, to_sq(m))) - threshold < 0 THEN FALSE
  ELSE IF PieceValueOf(p.var, pc)
            - (PieceValueOf(p.var, piece_on(p, to_sq(m))) - threshold) <= 0
       THEN TRUE
  ELSE SeeLoop(p, to_sq(m), Flip(color_of(pc)),
               attackers_to_occ(p, to_sq(m), occupied) \cap occupied, occupied,
               PieceValueOf(p.var, pc)
                 - (PieceValueOf(p.var, piece_on(p, to_sq(m))) - threshold),
               1) = 1

\* see_ge after the Crazyhouse halving of the threshold
SeeGeOf(p, m, threshold) ==
  IF is_three_check(p) /\ color_of(moved_piece(p, m)) = p.sideToMove
       /\ gives_check(p, m)
  THEN TRUE
  ELSE IF ~(is_house(p) /\ type_of(m) = DROP) /\ type_of(m) # NORMAL
  THEN VALUE_ZERO >= threshold
  ELSE IF is_atomic(p)
  THEN SeeGeAtomic(p, m, threshold, type_of_piece(piece_on(p, from_sq(m))),
                   color_of(piece_on(p, from_sq(m))), pieces(p) \ {from_sq(m)})
  ELSE IF is_house(p) /\ type_of(m) = DROP
  THEN SeeGeSwap(p, m, threshold, dropped_piece(m),
                 Toggle(pieces(p), to_sq(m)))
  ELSE SeeGeSwap(p, m, threshold, piece_on(p, from_sq(m)),
                 Toggle(Toggle(pieces(p), from_sq(m)), to_sq(m)))

\* C++ integer division, which truncates toward zero
CDiv(a, b) == IF a >= 0 THEN a \div b ELSE -((-a) \div b)

\* Position::see_ge(m, threshold)
see_ge(p, m, threshold) ==
  SeeGeOf(p, m,
          IF is_house(p) /\ color_of(moved_piece(p, m)) = p.sideToMove
          THEN CDiv(threshold, 2) ELSE threshold)

(***************************************************************************)
(* The exchange specification: see_ge is asked about the moves of both     *)
(* colours in a position, with every threshold of a range.                 *)
(***************************************************************************)
\* chess, an exchange on d5 with X-ray attackers behind the first ones:
\* 3qk3/3r4/4pn2/3p4/4P3/2N5/3R4/3RK3 w - - 0 1
FenSeeExchange ==
  <<"3", "q", "k", "3", "/", "3", "r", "4", "/", "4", "p", "n", "2", "/",
    "3", "p", "4", "/", "4", "P", "3", "/", "2", "N", "5", "/", "3", "R",
    "4", "/", "3", "R", "K", "3", " ", "w", " ", "-", " ", "-", " ", "0",
    " ", "1">>

\* chess, an attacker of d5 that is pinned to its king:
\* 4r1k1/8/2p5/3p4/2P5/4N3/8/4K3 w - - 0 1
FenSeePinned ==
  <<"4", "r", "1", "k", "1", "/", "8", "/", "2", "p", "5", "/", "3", "p",
    "4", "/", "2", "P", "5", "/", "4", "N", "3", "/", "8", "/", "4", "K",
    "3", " ", "w", " ", "-", " ", "-", " ", "0", " ", "1">>

\* chess, the king takes a defended pawn: 4k3/8/2p5/3p4/4K3/8/8/8 w - - 0 1
FenSeeKing ==
  <<"4", "k", "3", "/", "8", "/", "2", "p", "5", "/", "3", "p", "4", "/",
    "4", "K", "3", "/", "8", "/", "8", "/", "8", " ", "w", " ", "-", " ",
    "-", " ", "0", " ", "1">>

\* crazyhouse, captures and drops: 4k3/8/4p3/3p4/4P3/8/8/4K3[Nn] w - - 0 1
FenSeeHouse ==
  <<"4", "k", "3", "/", "8", "/", "4", "p", "3", "/", "3", "p", "4", "/",
    "4", "P", "3", "/", "8", "/", "8", "/", "4", "K", "3", "[", "N", "n",
    "]", " ", "w", " ", "-", " ", "-", " ", "0", " ", "1">>

SeeInputs ==
  {[fen |-> FenSeeExchange, v |-> CHESS_VARIANT],
   [fen |-> FenSeePinned, v |-> CHESS_VARIANT],
   [fen |-> FenSeeKing, v |-> CHESS_VARIANT],
   [fen |-> FenPinnedEp, v |-> CHESS_VARIANT],
   [fen |-> FenSeeHouse, v |-> CRAZYHOUSE_VARIANT],
   [fen |-> FenThreeCheck, v |-> THREECHECK_VARIANT],
   [fen |-> FenAtomicBlast, v |-> ATOMIC_VARIANT],
   [fen |-> FenAtomicWin, v |-> ATOMIC_VARIANT],
   [fen |-> FenAntiCapture, v |-> ANTI_VARIANT]}

\* the thresholds: every value up to MaxThreshold and the values next to
\* the mate scores that see<ATOMIC_VARIANT> returns
LowestThreshold == -VALUE_MATE - 2

HighestThreshold == VALUE_MATE + 1

SeeThresholds ==
  (-MaxThreshold..MaxThreshold)
    \cup (VALUE_MATE - 2..HighestThreshold) \cup (LowestThreshold..-VALUE_MATE + 1)

\* the next higher threshold
NextThreshold(t) ==
  IF t = -VALUE_MATE + 1 THEN -MaxThreshold
  ELSE IF t = MaxThreshold THEN VALUE_MATE - 2
  ELSE t + 1

\* the moves of either colour that the generators produce
SeeMoves(p) ==
  (IF checkers(p) # {} THEN generate_EVASIONS(p) ELSE generate_NON_EVASIONS(p))
    \cup generate_all(p, Flip(p.sideToMove), "NON_EVASIONS")

NoSee ==
  [op |-> "none", m |-> MOVE_NONE, threshold |-> 0, ge |-> FALSE, below |-> TRUE]

InitSee ==
  /\ \E f \in SeeInputs : pos = Position_set(IdlePos, f.fen, FALSE, f.v)
  /\ stack = <<>>
  /\ snap = <<>>
  /\ lastOp = NoSee
  /\ undone = IdlePos
  /\ Options = InitOptions
  /\ optLog = NoOptLog
  /\ TT = InitTT(0)
  /\ ttLog = NoTTLog

\* pos.see_ge(m, threshold) for a move and the lowest threshold
SeeGe ==
  /\ lastOp.op = "none"
  /\ \E m \in SeeMoves(pos) :
       lastOp' = [op |-> "see_ge", m |-> m, threshold |-> LowestThreshold,
                  ge |-> see_ge(pos, m, LowestThreshold), below |-> TRUE]
  /\ UNCHANGED <<pos, stack, snap, undone, Options, optLog, TT, ttLog>>

\* pos.see_ge(m, threshold) for the same move and the next threshold;
\* below remembers the answer for the threshold before
SeeGeNext ==
  /\ lastOp.op = "see_ge"
  /\ lastOp.threshold < HighestThreshold
  /\ lastOp' = [lastOp EXCEPT
                  !.threshold = NextThreshold(@),
                  !.ge = see_ge(pos, lastOp.m, NextThreshold(lastOp.threshold)),
                  !.below = lastOp.ge]
  /\ UNCHANGED <<pos, stack, snap, undone, Options, optLog, TT, ttLog>>

NextSee == SeeGe \/ SeeGeNext

SpecSee == InitSee /\ [][NextSee]_vars

Generated(p) ==
  IF checkers(p) # {} THEN generate_EVASIONS(p) ELSE generate_NON_EVASIONS(p)

\* bits 12-15, the move type and the promotion piece: the values of a
\* NORMAL move and of a DROP, which pseudo_legal examines itself, and the
\* other ones, which it looks up among the legal moves
OwnFlags == {0, 1, 2, 3, (SPECIAL + DROP) \div 4096}

\* the values of the bits 6-11 that are tried: the squares of the pieces
\* and the first empty square; for a DROP, where the bits hold the dropped
\* piece, every value
FromBits(p, fl) ==
  IF fl = (SPECIAL + DROP) \div 4096 THEN Squares
  ELSE pieces(p) \cup {lsb(Squares \ pieces(p))}

\* the values of the bits 0-5 that are tried: every square, and for the
\* looked-up moves the squares of the pieces and the destinations of the
\* generated moves
ToBits(p, fl) ==
  IF fl \in OwnFlags THEN Squares
  ELSE pieces(p) \cup {to_sq(m) : m \in Generated(p)}

MoveValues(p) ==
  UNION {{fl * 4096 + f * 64 + t : f \in FromBits(p, fl), t \in ToBits(p, fl)} :
           fl \in 0..15}

NoTry == [op |-> "none", m |-> MOVE_NONE, pl |-> FALSE, generated |-> FALSE]

InitTry ==
  /\ \E f \in FenInputs : pos = Position_set(IdlePos, f.fen, f.chess960, f.v)
  /\ stack = <<>>
  /\ snap = <<>>
  /\ lastOp = NoTry
  /\ undone = IdlePos
  /\ Options = InitOptions
  /\ optLog = NoOptLog
  /\ TT = InitTT(0)
  /\ ttLog = NoTTLog

\* pos.pseudo_legal(m) for a value read from the table
TryMove ==
  /\ lastOp.op = "none"
  /\ \E m \in MoveValues(pos) :
       lastOp' = [op |-> "pseudo_legal", m |-> m, pl |-> pseudo_legal(pos, m),
                  generated |-> m \in Generated(pos)]
  /\ UNCHANGED <<pos, stack, snap, undone, Options, optLog, TT, ttLog>>

NextTry == TryMove

SpecTry == InitTry /\ [][NextTry]_vars

\* C14: every 16-bit value for which pseudo_legal returns true is one of the
\* moves that generate<EVASIONS> (in check) or generate<NON_EVASIONS>
\* (otherwise) produces for the position, in every variant.
C14_PseudoLegalGenerated ==
  (lastOp.op = "pseudo_legal" /\ lastOp.pl) => lastOp.generated

(***************************************************************************)
(* position.cpp: Position::fen, the FEN string of the position.            *)
(***************************************************************************)
\* ss << n for an int n
RECURSIVE IntToString(_)
IntToString(n) ==
  IF n < 0 THEN <<"-">> \o IntToString(-n)
  ELSE IF n < 10 THEN <<DigitChars[n + 1]>>
  ELSE IntToString(n \div 10) \o <<DigitChars[(n % 10) + 1]>>

\* std::string(n, ch)
RECURSIVE StringOf(_, _)
StringOf(n, ch) == IF n <= 0 THEN <<>> ELSE <<ch>> \o StringOf(n - 1, ch)

FenEmpty(emptyCnt) == IF emptyCnt # 0 THEN IntToString(emptyCnt) ELSE <<>>

FenPiece(p, s) ==
  <<PieceToChar[piece_on(p, s) + 1]>>
    \o (IF is_house(p) /\ is_promoted(p, s) THEN <<"~">> ELSE <<>>)

\* the rank r from the file f on, after emptyCnt empty squares
RECURSIVE FenRank(_, _, _, _)
FenRank(p, r, f, emptyCnt) ==
  IF f > 7 THEN FenEmpty(emptyCnt)
  ELSE IF empty(p, make_square(f, r)) THEN FenRank(p, r, f + 1, emptyCnt + 1)
  ELSE FenEmpty(emptyCnt) \o FenPiece(p, make_square(f, r)) \o FenRank(p, r, f + 1, 0)

\* the ranks from r down to RANK_1
RECURSIVE FenRanks(_, _)
FenRanks(p, r) ==
  FenRank(p, r, 0, 0) \o (IF r > 0 THEN <<"/">> \o FenRanks(p, r - 1) ELSE <<>>)

\* the pieces in hand of the colour c, from pt down to PAWN
RECURSIVE FenHandOf(_, _, _)
FenHandOf(p, c, pt) ==
  IF pt < PAWN THEN <<>>
  ELSE StringOf(p.pieceCountInHand[c][pt], PieceToChar[make_piece(c, pt) + 1])
         \o FenHandOf(p, c, pt - 1)

FenHand(p) ==
  IF is_house(p)
  THEN <<"[">> \o FenHandOf(p, WHITE, QUEEN) \o FenHandOf(p, BLACK, QUEEN) \o <<"]">>
  ELSE <<>>

FenCastlingOf(p, cr, letter, first) ==
  IF can_castle(p, {cr})
  THEN IF p.chess960
       THEN <<Chr(Ord(first) + file_of(castling_rook_square(p, cr)))>>
       ELSE <<letter>>
  ELSE <<>>

FenCastling(p) ==
  FenCastlingOf(p, WHITE_OO, "K", "A") \o FenCastlingOf(p, WHITE_OOO, "Q", "A")
    \o FenCastlingOf(p, BLACK_OO, "k", "a") \o FenCastlingOf(p, BLACK_OOO, "q", "a")
    \o (IF ~can_castle(p, ANY_CASTLING) THEN <<"-">> ELSE <<>>)

\* UCI::square(s)
UCI_square(s) == <<Chr(Ord("a") + file_of(s)), Chr(Ord("1") + rank_of(s))>>

FenEnPassant(p) ==
  IF ep_square(p) = SQ_NONE THEN <<" ", "-", " ">>
  ELSE <<" ">> \o UCI_square(ep_square(p)) \o <<" ">>

FenChecks(p) ==
  IF is_three_check(p)
  THEN IntToString(CHECKS_3 - St(p).checksGiven[WHITE]) \o <<"+">>
         \o IntToString(CHECKS_3 - St(p).checksGiven[BLACK]) \o <<" ">>
  ELSE <<>>

\* a full-move number that counts the plies
FenPlies(p) == 1 + p.gamePly

\* 1 + (gamePly - (sideToMove == BLACK)) / 2
FenFullMove(p) == 1 + CDiv(p.gamePly - (IF p.sideToMove = BLACK THEN 1 ELSE 0), 2)

FenClocks(p) == IntToString(St(p).rule50) \o <<" ">> \o IntToString(FenFullMove(p))

\* Position::fen()
fen(p) ==
  FenRanks(p, 7) \o FenHand(p)
    \o (IF p.sideToMove = WHITE THEN <<" ", "w", " ">> ELSE <<" ", "b", " ">>)
    \o FenCastling(p) \o FenEnPassant(p) \o FenChecks(p) \o FenClocks(p)

(***************************************************************************)
(* The FEN specification: positions set from FEN strings and reached by    *)
(* moves and null moves are written with fen() and set again from what it  *)
(* wrote.  undone holds the position that was written.                     *)
(***************************************************************************)
\* three-check as fen() writes it: 7K/8/8/R7/8/8/1p6/4k3 w - - 1+3 0 1
FenThreeCheckWritten ==
  <<"7", "K", "/", "8", "/", "8", "/", "R", "7", "/", "8", "/", "8", "/",
    "1", "p", "6", "/", "4", "k", "3", " ", "w", " ", "-", " ", "-", " ",
    "1", "+", "3", " ", "0", " ", "1">>

\* three-check without checks as fen() writes it:
\* 4k3/8/8/8/8/8/8/R5K1 w - - 3+3 0 1
FenRepThreeCheckWritten ==
  <<"4", "k", "3", "/", "8", "/", "8", "/", "8", "/", "8", "/", "8", "/",
    "8", "/", "R", "5", "K", "1", " ", "w", " ", "-", " ", "-", " ", "3",
    "+", "3", " ", "0", " ", "1">>

\* the FEN strings, each with the string fen() writes for its position
FenWritten(f) ==
  IF f = FenThreeCheck THEN FenThreeCheckWritten
  ELSE IF f = FenRepThreeCheck THEN FenRepThreeCheckWritten
  ELSE f

\* chess960 with the castling letters in the order fen() writes them:
\* 1rk3r1/8/8/8/8/8/8/1RK3R1 w GBgb - 0 1
Fen960Written ==
  <<"1", "r", "k", "3", "r", "1", "/", "8", "/", "8", "/", "8", "/", "8",
    "/", "8", "/", "8", "/", "1", "R", "K", "3", "R", "1", " ", "w", " ",
    "G", "B", "g", "b", " ", "-", " ", "0", " ", "1">>

\* the canonical FEN strings of the variants
FenRoundInputs ==
  {f \in FenInputs : f.fen # Fen960}
    \cup {[fen |-> Fen960Written, v |-> CHESS_VARIANT, chess960 |-> TRUE],
          [fen |-> FenThreeCheckWritten, v |-> THREECHECK_VARIANT,
           chess960 |-> FALSE],
          [fen |-> FenRepThreeCheck, v |-> THREECHECK_VARIANT,
           chess960 |-> FALSE]}

InitFen ==
  /\ \E f \in FenRoundInputs :
       /\ pos = Position_set(IdlePos, f.fen, f.chess960, f.v)
       /\ lastOp = [NoOp EXCEPT !.op = "set", !.fen = f.fen]
  /\ stack = <<>>
  /\ snap = <<>>
  /\ undone = IdlePos
  /\ Options = InitOptions
  /\ optLog = NoOptLog
  /\ TT = InitTT(0)
  /\ ttLog = NoTTLog

\* pos.set(pos.fen(), pos.is_chess960(), pos.variant(), ...)
SetFromFen ==
  /\ lastOp.n < MaxOps
  /\ lastOp.op \in {"do", "donull"}
  /\ pos' = Position_set(pos, fen(pos), pos.chess960, pos.var)
  /\ undone' = pos
  /\ lastOp' = [NoOp EXCEPT !.n = lastOp.n + 1, !.op = "setfen", !.fen = fen(pos)]
  /\ stack' = <<>>
  /\ snap' = <<>>
  /\ UNCHANGED <<Options, optLog, TT, ttLog>>

NextFen == DoMove \/ DoNullMove \/ SetFromFen

SpecFen == InitFen /\ [][NextFen]_vars

\* placement, side to move, castling rights, en passant square, counters,
\* hands and check counts
SameFenFields(a, b) ==
  /\ a.board = b.board
  /\ a.sideToMove = b.sideToMove
  /\ St(a).castlingRights = St(b).castlingRights
  /\ St(a).epSquare = St(b).epSquare
  /\ St(a).rule50 = St(b).rule50
  /\ FenFullMove(a) = FenFullMove(b)
  /\ a.pieceCountInHand = b.pieceCountInHand
  /\ St(a).checksGiven = St(b).checksGiven

\* C16 as stated: set(f) followed by fen() returns f for every canonical
\* FEN, the Three-Check form with the trailing +W+B field included, and
\* set(fen()) on a reachable position reproduces placement, side to move,
\* castling rights, en passant square, counters, hands and check counts.
C16_RoundTrip ==
  /\ lastOp.op = "set" => fen(pos) = lastOp.fen
  /\ lastOp.op = "setfen" => SameFenFields(pos, undone)

\* C16 amended: set(f) followed by fen() returns f for every canonical FEN
\* but the Three-Check form with the trailing +W+B field, for which it
\* returns the form with the remaining checks W+B before the clocks; and
\* set(fen()) reproduces the fields.
C16_RoundTripWritten ==
  /\ lastOp.op = "set" => fen(pos) = FenWritten(lastOp.fen)
  /\ lastOp.op = "setfen" => SameFenFields(pos, undone)

\* a Three-Check position with checks given is written and set again after
\* a move that gave check
C16_Witness ==
  /\ lastOp.op = "setfen"
  /\ is_three_check(pos)
  /\ St(pos).checksGiven[WHITE] = 3
  /\ pos.gamePly = 1
  /\ fen(pos) = lastOp.fen

\* the FEN ends with the field +W+B
TrailingChecks(f) ==
  /\ Len(f) >= 4
  /\ f[Len(f) - 3] = "+"
  /\ f[Len(f) - 1] = "+"
  /\ isdigit(f[Len(f) - 2])
  /\ isdigit(f[Len(f)])

\* C17 as stated: in Three-Check the trailing +W+B field is read as the
\* checks that remain: checks_given(WHITE) = 3 - W, checks_given(BLACK) = 3 - B.
C17_TrailingRemaining ==
  (lastOp.op = "set" /\ is_three_check(pos) /\ TrailingChecks(lastOp.fen)) =>
    /\ St(pos).checksGiven[WHITE] = 3 - DigitVal(lastOp.fen[Len(lastOp.fen) - 2])
    /\ St(pos).checksGiven[BLACK] = 3 - DigitVal(lastOp.fen[Len(lastOp.fen)])

\* C17 amended: in Three-Check the trailing +W+B field is read as the checks
\* given: checks_given(WHITE) = W, checks_given(BLACK) = B; the field W+B
\* before the clocks is the one read as the checks that remain.
C17_TrailingGiven ==
  /\ (lastOp.op = "set" /\ is_three_check(pos) /\ TrailingChecks(lastOp.fen)) =>
       /\ St(pos).checksGiven[WHITE] = DigitVal(lastOp.fen[Len(lastOp.fen) - 2])
       /\ St(pos).checksGiven[BLACK] = DigitVal(lastOp.fen[Len(lastOp.fen)])
  /\ (lastOp.op = "set" /\ lastOp.fen = FenThreeCheckWritten) =>
       /\ St(pos).checksGiven[WHITE] = 3 - DigitVal(lastOp.fen[Len(lastOp.fen) - 6])
       /\ St(pos).checksGiven[BLACK] = 3 - DigitVal(lastOp.fen[Len(lastOp.fen) - 4])

\* the position set from ... 0 1 +2+0: White has given two checks
C17_Witness ==
  /\ lastOp.op = "set"
  /\ lastOp.fen = FenThreeCheck
  /\ St(pos).checksGiven[WHITE] = 2
  /\ St(pos).checksGiven[BLACK] = 0

(***************************************************************************)
(* Variant results: positions at and next to the end of a variant game.    *)
(* Moves are made in the variants whose move rules are modelled; a         *)
(* King-of-the-Hill or Racing Kings position is set up from its FEN.       *)
(***************************************************************************)
\* antichess, the king takes the last black pawn: 8/8/8/8/8/8/1p6/K7 w - - 0 1
FenAntiLast ==
  <<"8", "/", "8", "/", "8", "/", "8", "/", "8", "/", "8", "/", "1", "p",
    "6", "/", "K", "7", " ", "w", " ", "-", " ", "-", " ", "0", " ", "1">>

\* king of the hill, the king of the side to move is in the centre: 8/8/8/3K4/8/8/8/7k w - - 0 1
FenKothWin ==
  <<"8", "/", "8", "/", "8", "/", "3", "K", "4", "/", "8", "/", "8", "/",
    "8", "/", "7", "k", " ", "w", " ", "-", " ", "-", " ", "0", " ", "1">>

\* king of the hill, the other king is in the centre: 8/8/8/3K4/8/8/8/7k b - - 0 1
FenKothLoss ==
  <<"8", "/", "8", "/", "8", "/", "3", "K", "4", "/", "8", "/", "8", "/",
    "8", "/", "7", "k", " ", "b", " ", "-", " ", "-", " ", "0", " ", "1">>

\* racing kings, both kings on the eighth rank: 1k5K/8/8/8/8/8/8/8 w - - 0 1
FenRaceDraw ==
  <<"1", "k", "5", "K", "/", "8", "/", "8", "/", "8", "/", "8", "/", "8",
    "/", "8", "/", "8", " ", "w", " ", "-", " ", "-", " ", "0", " ", "1">>

\* racing kings, both kings on the eighth rank, black to move: 1k5K/8/8/8/8/8/8/8 b - - 0 1
FenRaceDrawBlack ==
  <<"1", "k", "5", "K", "/", "8", "/", "8", "/", "8", "/", "8", "/", "8",
    "/", "8", "/", "8", " ", "b", " ", "-", " ", "-", " ", "0", " ", "1">>

\* racing kings, white has arrived and black is too far: 7K/8/8/8/k7/8/8/8 b - - 0 1
FenRaceLoss ==
  <<"7", "K", "/", "8", "/", "8", "/", "8", "/", "k", "7", "/", "8", "/",
    "8", "/", "8", " ", "b", " ", "-", " ", "-", " ", "0", " ", "1">>

\* racing kings, black has arrived: k7/8/8/8/8/8/8/7K w - - 0 1
FenRaceLossWhite ==
  <<"k", "7", "/", "8", "/", "8", "/", "8", "/", "8", "/", "8", "/", "8",
    "/", "7", "K", " ", "w", " ", "-", " ", "-", " ", "0", " ", "1">>

\* racing kings, the side to move has arrived alone: 7K/8/8/8/8/8/8/k7 w - - 0 1
FenRaceWin ==
  <<"7", "K", "/", "8", "/", "8", "/", "8", "/", "8", "/", "8", "/", "8",
    "/", "k", "7", " ", "w", " ", "-", " ", "-", " ", "0", " ", "1">>

\* racing kings, black on the seventh rank cannot step to the eighth: 6RK/k7/8/8/8/8/8/8 b - - 0 1
FenRaceGuarded ==
  <<"6", "R", "K", "/", "k", "7", "/", "8", "/", "8", "/", "8", "/", "8",
    "/", "8", "/", "8", " ", "b", " ", "-", " ", "-", " ", "0", " ", "1">>

\* racing kings, black on the seventh rank can still draw level: 7K/k7/8/8/8/8/8/8 b - - 0 1
FenRaceOpen ==
  <<"7", "K", "/", "k", "7", "/", "8", "/", "8", "/", "8", "/", "8", "/",
    "8", "/", "8", " ", "b", " ", "-", " ", "-", " ", "0", " ", "1">>

EndInputs ==
  {[fen |-> FenAtomicWin, v |-> ATOMIC_VARIANT],
   [fen |-> FenAtomicBlast, v |-> ATOMIC_VARIANT],
   [fen |-> FenThreeCheckWritten, v |-> THREECHECK_VARIANT],
   [fen |-> FenAntiCapture, v |-> ANTI_VARIANT],
   [fen |-> FenAntiLast, v |-> ANTI_VARIANT],
   [fen |-> FenKothWin, v |-> KOTH_VARIANT],
   [fen |-> FenKothLoss, v |-> KOTH_VARIANT],
   [fen |-> FenRaceDraw, v |-> RACE_VARIANT],
   [fen |-> FenRaceDrawBlack, v |-> RACE_VARIANT],
   [fen |-> FenRaceLoss, v |-> RACE_VARIANT],
   [fen |-> FenRaceLossWhite, v |-> RACE_VARIANT],
   [fen |-> FenRaceWin, v |-> RACE_VARIANT],
   [fen |-> FenRaceGuarded, v |-> RACE_VARIANT],
   [fen |-> FenRaceOpen, v |-> RACE_VARIANT]}

\* the plies from the root and the draw scores the search passes
EndPlies == 0..(MaxPly + 1)

DrawValues == {VALUE_DRAW - 8, VALUE_DRAW, VALUE_DRAW + 8}

NoResult == [op |-> "none", m |-> MOVE_NONE, n |-> 0, ply |-> 0, dv |-> VALUE_DRAW,
             r |-> Returned(VALUE_ZERO)]

InitEnd ==
  /\ \E f \in EndInputs : pos = Position_set(IdlePos, f.fen, FALSE, f.v)
  /\ stack = <<>>
  /\ snap = <<>>
  /\ lastOp = NoResult
  /\ undone = IdlePos
  /\ Options = InitOptions
  /\ optLog = NoOptLog
  /\ TT = InitTT(0)
  /\ ttLog = NoTTLog

\* a move of the game, in a variant whose moves are modelled
EndMove ==
  /\ pos.var \in {ANTI_VARIANT, ATOMIC_VARIANT, THREECHECK_VARIANT}
  /\ lastOp.op # "result"
  /\ DoMove

\* search and evaluation call variant_result once is_variant_end() holds
VariantResult ==
  /\ lastOp.op # "result"
  /\ is_variant_end(pos)
  /\ \E ply \in EndPlies, dv \in DrawValues :
       lastOp' = [NoResult EXCEPT !.op = "result", !.ply = ply, !.dv = dv,
                                  !.r = variant_result(pos, ply, dv)]
  /\ UNCHANGED <<pos, stack, snap, undone, Options, optLog, TT, ttLog>>

NextEnd == EndMove \/ VariantResult

SpecEnd == InitEnd /\ [][NextEnd]_vars

\* the terminal conditions, read off the board for either colour
CentreSquares == {27, 28, 35, 36}

KingOnEighth(p, c) == \E s \in pieces_cpt(p, c, KING) : s >= 56

HasWon(p, c) ==
  CASE p.var = ANTI_VARIANT       -> pieces_c(p, c) = {}
    [] p.var = ATOMIC_VARIANT     -> pieces_cpt(p, Flip(c), KING) = {}
    [] p.var = KOTH_VARIANT       -> pieces_cpt(p, c, KING) \cap CentreSquares # {}
    [] p.var = RACE_VARIANT       -> KingOnEighth(p, c) /\ ~KingOnEighth(p, Flip(c))
    [] p.var = THREECHECK_VARIANT -> p.st[Len(p.st)].checksGiven[c] = 3
    [] OTHER                      -> FALSE

FenStale ==
  <<"7", "k", "/", "5", "Q", "2", "/", "6", "K", "1", "/", "8", "/", "8",
    "/", "8", "/", "8", "/", "8", " ", "b", " ", "-", " ", "-", " ", "0",
    " ", "1">>

\* the queen can stalemate the cornered king from f7: 7k/8/6K1/5Q2/8/8/8/8 w - - 0 1
FenNearStale ==
  <<"7", "k", "/", "8", "/", "6", "K", "1", "/", "5", "Q", "2", "/", "8",
    "/", "8", "/", "8", "/", "8", " ", "w", " ", "-", " ", "-", " ", "0",
    " ", "1">>

\* antichess, a blocked pawn each: 8/8/8/8/8/p7/P7/8 w - - 0 1
FenAntiBlocked ==
  <<"8", "/", "8", "/", "8", "/", "8", "/", "8", "/", "p", "7", "/", "P",
    "7", "/", "8", " ", "w", " ", "-", " ", "-", " ", "0", " ", "1">>

\* antichess, the blocked side has fewer pieces: 7k/8/8/8/8/p7/P7/8 w - - 0 1
FenAntiBlockedFewer ==
  <<"7", "k", "/", "8", "/", "8", "/", "8", "/", "8", "/", "p", "7", "/",
    "P", "7", "/", "8", " ", "w", " ", "-", " ", "-", " ", "0", " ", "1">>

\* antichess, the blocked side has more pieces: 8/8/8/8/p7/P7/P7/8 w - - 0 1
FenAntiBlockedMore ==
  <<"8", "/", "8", "/", "8", "/", "8", "/", "p", "7", "/", "P", "7", "/",
    "P", "7", "/", "8", " ", "w", " ", "-", " ", "-", " ", "0", " ", "1">>

\* antichess, the pawn can step up and block the other: 8/8/8/p7/8/P7/8/8 w - - 0 1
FenAntiNearBlocked ==
  <<"8", "/", "8", "/", "8", "/", "p", "7", "/", "8", "/", "P", "7", "/",
    "8", "/", "8", " ", "w", " ", "-", " ", "-", " ", "0", " ", "1">>

StaleInputs ==
  {[fen |-> FenStale, v |-> CHESS_VARIANT],
   [fen |-> FenStale, v |-> LOSERS_VARIANT],
   [fen |-> FenStale, v |-> THREECHECK_VARIANT],
   [fen |-> FenStale, v |-> ATOMIC_VARIANT],
   [fen |-> FenNearStale, v |-> CHESS_VARIANT],
   [fen |-> FenNearStale, v |-> THREECHECK_VARIANT],
   [fen |-> FenNearStale, v |-> ATOMIC_VARIANT],
   [fen |-> FenHouseDrop, v |-> CRAZYHOUSE_VARIANT],
   [fen |-> FenAntiBlocked, v |-> ANTI_VARIANT],
   [fen |-> FenAntiBlocked, v |-> SUICIDE_VARIANT],
   [fen |-> FenAntiBlockedFewer, v |-> ANTI_VARIANT],
   [fen |-> FenAntiBlockedFewer, v |-> SUICIDE_VARIANT],
   [fen |-> FenAntiBlockedMore, v |-> ANTI_VARIANT],
   [fen |-> FenAntiBlockedMore, v |-> SUICIDE_VARIANT],
   [fen |-> FenAntiNearBlocked, v |-> ANTI_VARIANT],
   [fen |-> FenAntiNearBlocked, v |-> SUICIDE_VARIANT]}

InitStale ==
  /\ \E f \in StaleInputs : pos = Position_set(IdlePos, f.fen, FALSE, f.v)
  /\ stack = <<>>
  /\ snap = <<>>
  /\ lastOp = NoResult
  /\ undone = IdlePos
  /\ Options = InitOptions
  /\ optLog = NoOptLog
  /\ TT = InitTT(0)
  /\ ttLog = NoTTLog

\* a move of the game, in a variant whose moves are modelled
StaleMove ==
  /\ pos.var # LOSERS_VARIANT
  /\ lastOp.op # "stalemate"
  /\ DoMove

\* the side to move has no legal move and is not in check
Stalemated(p) ==
  /\ ~is_variant_end(p)
  /\ checkers(p) = {}
  /\ generate_LEGAL(p) = {}

\* search scores a position without legal moves and without check
StalemateValue ==
  /\ lastOp.op # "stalemate"
  /\ Stalemated(pos)
  /\ \E ply \in EndPlies, dv \in DrawValues :
       lastOp' = [NoResult EXCEPT !.op = "stalemate", !.ply = ply, !.dv = dv,
                                  !.r = Returned(stalemate_value(pos, ply, dv))]
  /\ UNCHANGED <<pos, stack, snap, undone, Options, optLog, TT, ttLog>>

NextStale == StaleMove \/ StalemateValue

SpecStale == InitStale /\ [][NextStale]_vars

\* the pieces of the side to move less those of the other side
Balance(p) ==
  Cardinality(pieces_c(p, p.sideToMove)) - Cardinality(pieces_c(p, Flip(p.sideToMove)))

tolower(ch) == IF Ord(ch) \in Ord("A")..Ord("Z") THEN Chr(Ord(ch) + 32) ELSE ch

\* char(islower(c) ? toupper(c) : tolower(c))
SwapCase(ch) == IF islower(ch) THEN toupper(ch) ELSE tolower(ch)

\* std::getline(ss, token, delim) from index i: the token and the next index
LineEnd(buf, i, delim) ==
  IF \E j \in i..Len(buf) : buf[j] = delim
  THEN MinOf({j \in i..Len(buf) : buf[j] = delim})
  ELSE Len(buf) + 1

GetLine(buf, i, delim) ==
  [token |-> SubSeq(buf, i, LineEnd(buf, i, delim) - 1), i |-> LineEnd(buf, i, delim) + 1]

\* ss >> token for a string token: leading spaces are skipped
WordStart(buf, i) ==
  IF \E j \in i..Len(buf) : buf[j] # " "
  THEN MinOf({j \in i..Len(buf) : buf[j] # " "})
  ELSE Len(buf) + 1

GetWord(buf, i) ==
  [token |-> SubSeq(buf, WordStart(buf, i), LineEnd(buf, WordStart(buf, i), " ") - 1),
   i |-> LineEnd(buf, WordStart(buf, i), " ")]

\* f.insert(0, token + (f.empty() ? " " : "/"))
FlipInsert(r, g) ==
  [f |-> g.token \o (IF r.f = <<>> THEN <<" ">> ELSE <<"/">>) \o r.f, i |-> g.i]

\* for (Rank r = RANK_8; r >= RANK_1; --r)
RECURSIVE FlipRanks(_, _, _)
FlipRanks(buf, r, rank) ==
  IF rank < RANK_1 THEN r
  ELSE FlipRanks(buf,
                 FlipInsert(r, GetLine(buf, r.i, IF rank > RANK_1 THEN "/" ELSE " ")),
                 rank - 1)

FlipColor(r, g) ==
  [f |-> r.f \o (IF g.token = <<"w">> THEN <<"B", " ">> ELSE <<"W", " ">>), i |-> g.i]

FlipCastlingToken(r, g) == [f |-> r.f \o g.token \o <<" ">>, i |-> g.i]

FlipTransform(r) == [f |-> [j \in 1..Len(r.f) |-> SwapCase(r.f[j])], i |-> r.i]

\* token.replace(1, 1, token[1] == '3' ? "6" : "3")
FlipEpToken(token) ==
  IF token = <<"-">> THEN token
  ELSE <<token[1]>> \o (IF token[2] = "3" THEN <<"6">> ELSE <<"3">>)
         \o SubSeq(token, 3, Len(token))

FlipEnPassant(r, g) == [f |-> r.f \o FlipEpToken(g.token), i |-> g.i]

\* std::getline(ss, token): the half and full moves, and whatever else is left
FlipRest(buf, r) == r.f \o SubSeq(buf, r.i, Len(buf))

FlipFenStages(buf, r) ==
  FlipRest(buf, FlipEnPassant(r, GetWord(buf, r.i)))

FlipFenHead(buf, r) ==
  FlipTransform(FlipCastlingToken(FlipColor(r, GetWord(buf, r.i)),
                                  GetWord(buf, GetWord(buf, r.i).i)))

\* the string Position::flip hands to set()
FlipFen(buf) ==
  FlipFenStages(buf, FlipFenHead(buf, FlipRanks(buf, [f |-> <<>>, i |-> 1], RANK_8)))

\* set(f, is_chess960(), variant(), st, this_thread())
flip(p) == Position_set(p, FlipFen(fen(p)), p.chess960, p.var)

\* square<KING>(c) asserts that c has one king on the board, but in
\* antichess, and set_state reads the attack tables at the king's square
HasKings(q) == is_anti(q) \/ \A c \in Colors : q.pieceCount[make_piece(c, KING)] = 1

\* without a king on the board the build with assertions stops in
\* square<KING>(), the build without them reads the attack tables at SQ_NONE
\* and the check info of the StateInfo is whatever it found there
FlipOutcomes(q) ==
  IF HasKings(q) THEN {"flip"} ELSE {"flip_assert", "flip_garbage"}

Indeterminate == {SQ_NONE}

Garbled(q) ==
  SetSt(q, [St(q) EXCEPT !.checkersBB = Indeterminate,
                         !.blockersForKing = [c \in Colors |-> Indeterminate],
                         !.pinners = [c \in Colors |-> Indeterminate],
                         !.checkSquares = [pt \in 0..7 |-> Indeterminate]])

FlipInputs ==
  {[fen |-> FenCastle, v |-> CHESS_VARIANT, chess960 |-> FALSE],
   [fen |-> FenPinnedEp, v |-> CHESS_VARIANT, chess960 |-> FALSE],
   [fen |-> FenDoublePush, v |-> CHESS_VARIANT, chess960 |-> FALSE],
   [fen |-> Fen960Written, v |-> CHESS_VARIANT, chess960 |-> TRUE],
   [fen |-> FenThreeCheckWritten, v |-> THREECHECK_VARIANT, chess960 |-> FALSE],
   [fen |-> FenRepThreeCheckWritten, v |-> THREECHECK_VARIANT, chess960 |-> FALSE],
   [fen |-> FenHouseDrop, v |-> CRAZYHOUSE_VARIANT, chess960 |-> FALSE],
   [fen |-> FenHouseCheck, v |-> CRAZYHOUSE_VARIANT, chess960 |-> FALSE],
   [fen |-> FenAtomicBlast, v |-> ATOMIC_VARIANT, chess960 |-> FALSE],
   [fen |-> FenAntiCapture, v |-> ANTI_VARIANT, chess960 |-> FALSE]}

InitFlip ==
  /\ \E f \in FlipInputs : pos = Position_set(IdlePos, f.fen, f.chess960, f.v)
  /\ stack = <<>>
  /\ snap = <<>>
  /\ lastOp = NoOp
  /\ undone = IdlePos
  /\ Options = InitOptions
  /\ optLog = NoOptLog
  /\ TT = InitTT(0)
  /\ ttLog = NoTTLog

\* a move of the game, on a position whose StateInfo is determinate
FlipMove ==
  /\ lastOp.valid
  /\ DoMove

\* Position::flip on the current position; undone keeps the position before
FlipPosition ==
  /\ lastOp.n < MaxOps
  /\ lastOp.valid
  /\ \E outcome \in FlipOutcomes(flip(pos)) :
       /\ pos' = (IF outcome = "flip" THEN flip(pos) ELSE Garbled(flip(pos)))
       /\ lastOp' = [NoOp EXCEPT !.n = lastOp.n + 1, !.op = outcome,
                                 !.valid = (outcome = "flip")]
  /\ undone' = pos
  /\ stack' = <<>>
  /\ snap' = <<>>
  /\ UNCHANGED <<Options, optLog, TT, ttLog>>

NextFlip == FlipMove \/ FlipPosition

SpecFlip == InitFlip /\ [][NextFlip]_vars

\* the colours swapped and the ranks mirrored
MirrorSq(s) == 8 * (7 - (s \div 8)) + (s % 8)

OtherColour(pc) == IF pc = NO_PIECE THEN NO_PIECE ELSE (pc + 8) % 16

OtherRights(cr) ==
  {r \in {WHITE_OO, WHITE_OOO, BLACK_OO, BLACK_OOO} :
     \/ r = WHITE_OO /\ BLACK_OO \in cr
     \/ r = WHITE_OOO /\ BLACK_OOO \in cr
     \/ r = BLACK_OO /\ WHITE_OO \in cr
     \/ r = BLACK_OOO /\ WHITE_OOO \in cr}

IsMirror(q, p) ==
  /\ \A s \in Squares : q.board[s] = OtherColour(p.board[MirrorSq(s)])
  /\ q.sideToMove = Flip(p.sideToMove)
  /\ St(q).castlingRights = OtherRights(St(p).castlingRights)
  /\ St(q).epSquare = (IF St(p).epSquare = SQ_NONE THEN SQ_NONE
                       ELSE MirrorSq(St(p).epSquare))
  /\ \A c \in Colors : q.pieceCountInHand[c] = p.pieceCountInHand[Flip(c)]
  /\ \A c \in Colors : St(q).checksGiven[c] = St(p).checksGiven[Flip(c)]
  /\ q.promotedPieces = {MirrorSq(s) : s \in p.promotedPieces}

FlipOps == {"flip", "flip_assert", "flip_garbage"}

\* C20: for a position P that is not variant-terminal and not in check,
\* flip(P) is P with the colours swapped and the ranks mirrored, the side to
\* move included, and comes with a StateInfo evaluate can read: the position
\* whose evaluation is to equal that of P
C20_FlipMirrors ==
  (lastOp.op \in FlipOps /\ ~is_variant_end(undone) /\ checkers(undone) = {}) =>
    lastOp.op = "flip" /\ IsMirror(pos, undone)

(***************************************************************************)
(* numa.cpp, win_groups.cpp: the table threadToNode the constructor builds *)
(* from the topology of the machine, and bindThisThread(idx), which every  *)
(* worker calls once with its index.  The Windows constructor counts the   *)
(* nodes, cores and hardware threads; the Linux one collects a NodeInfo    *)
(* per node.                                                               *)
(***************************************************************************)
Rep(n, v) == [i \in 1..n |-> v]

\* for (n < nodes) for (i < cores / nodes) threadToNode.push_back(n)
RECURSIVE WinCoreEntries(_, _, _)
WinCoreEntries(n, nodes, cores) ==
  IF n >= nodes THEN <<>>
  ELSE Rep(cores \div nodes, n) \o WinCoreEntries(n + 1, nodes, cores)

\* a table that deals the workers round the nodes
WinRoundRobin(nodes, cores, threads) ==
  [i \in 1..(nodes * (cores \div nodes) + (threads - cores)) |-> (i - 1) % nodes]

\* the table of the Windows constructor; threads >= cores
WinThreadToNode(nodes, cores, threads) ==
  WinCoreEntries(0, nodes, cores) \o [t \in 1..(threads - cores) |-> (t - 1) % nodes]

\* the comparison std::sort is given: more cores first, then more threads
NodeBefore(a, b) ==
  IF a.numCores # b.numCores THEN a.numCores > b.numCores
  ELSE a.numThreads > b.numThreads

\* the orders std::sort may leave the nodes in: no node stands after one it
\* is to precede
SortedNodes(infos) ==
  {sq \in [1..Cardinality(infos) -> infos] :
     /\ \A i, j \in 1..Cardinality(infos) : i # j => sq[i] # sq[j]
     /\ \A i, j \in 1..Cardinality(infos) : i < j => ~NodeBefore(sq[j], sq[i])}

\* for (ni : nodes) for (i < ni.numCores) threadToNode.push_back(ni.node)
RECURSIVE LinuxCoreEntries(_, _)
LinuxCoreEntries(nodes, k) ==
  IF k > Len(nodes) THEN <<>>
  ELSE Rep(nodes[k].numCores, nodes[k].node) \o LinuxCoreEntries(nodes, k + 1)

\* one pass of the for loop inside while (!done), from node k on
RECURSIVE ExtraPass(_, _, _)
ExtraPass(nodes, k, table) ==
  IF k > Len(nodes) THEN [nodes |-> nodes, table |-> table]
  ELSE IF nodes[k].numThreads > nodes[k].numCores
  THEN ExtraPass([nodes EXCEPT ![k].numThreads = @ - 1], k + 1,
                 Append(table, nodes[k].node))
  ELSE ExtraPass(nodes, k + 1, table)

\* while (!done)
RECURSIVE ExtraLoop(_, _)
ExtraLoop(nodes, table) ==
  IF \A k \in 1..Len(nodes) : nodes[k].numThreads <= nodes[k].numCores THEN table
  ELSE ExtraLoop(ExtraPass(nodes, 1, table).nodes, ExtraPass(nodes, 1, table).table)

\* the table of the Linux constructor from the sorted nodes; nothing is
\* bound on a machine whose highest node is node 0
LinuxThreadToNode(nodes) ==
  IF Len(nodes) <= 1 THEN <<>>
  ELSE ExtraLoop(nodes, LinuxCoreEntries(nodes, 1))

\* the machines: a Windows topology, or the NodeInfo of each Linux node
WinMachines ==
  {[build |-> "windows", nodes |-> n, cores |-> c, threads |-> t, sorted |-> <<>>] :
     n \in 1..MaxNodes, c \in 1..MaxCores, t \in 1..(2 * MaxCores)}

WinTopologies == {m \in WinMachines : m.threads \in {m.cores, 2 * m.cores}}

NodeInfos(node) ==
  {[node |-> node, numCores |-> c, numThreads |-> t] :
     c \in 1..2, t \in 1..4}

LinuxNodes(node) == {ni \in NodeInfos(node) : ni.numThreads \in {ni.numCores, 2 * ni.numCores}}

LinuxNodeSets ==
  UNION {{{f[n] : n \in 0..(k - 1)} : f \in [0..(k - 1) -> UNION {LinuxNodes(n) : n \in 0..(k - 1)}]} :
           k \in 1..MaxNodes}

LinuxInfos == {S \in LinuxNodeSets : \A n \in 0..(Cardinality(S) - 1) : \E ni \in S : ni.node = n}

NotBound == -1

Workers == 0..(MaxWorkers - 1)

NumaState(build, nodes, cores, threads, sorted, table) ==
  [op |-> "none", build |-> build, nodes |-> nodes, cores |-> cores, threads |-> threads,
   sorted |-> sorted, threadToNode |-> table, idx |-> 0,
   called |-> {}, bound |-> [w \in Workers |-> NotBound]]

InitNuma ==
  /\ \/ \E m \in WinTopologies :
          lastOp = NumaState("windows", m.nodes, m.cores, m.threads, <<>>,
                             WinThreadToNode(m.nodes, m.cores, m.threads))
     \/ \E S \in LinuxInfos : \E sq \in SortedNodes(S) :
          lastOp = NumaState("linux", Len(sq), 0, 0, sq, LinuxThreadToNode(sq))
  /\ pos = IdlePos
  /\ stack = <<>>
  /\ snap = <<>>
  /\ undone = IdlePos
  /\ Options = InitOptions
  /\ optLog = NoOptLog
  /\ TT = InitTT(0)
  /\ ttLog = NoTTLog

\* bindThisThread(idx): past the end of the table nothing is done; on
\* Windows GetNumaNodeProcessorMask(Ex) or SetThread(Group)Affinity(Mask) may
\* fail and the thread stays where it was
BindResults(st, idx) ==
  IF idx >= Len(st.threadToNode) THEN {NotBound}
  ELSE IF st.build = "windows" THEN {st.threadToNode[idx + 1], NotBound}
  ELSE {st.threadToNode[idx + 1]}

bindThisThread ==
  \E idx \in Workers \ lastOp.called :
    /\ \E node \in BindResults(lastOp, idx) :
         lastOp' = [lastOp EXCEPT !.op = "bind", !.idx = idx,
                                  !.called = @ \cup {idx}, !.bound[idx] = node]
    /\ UNCHANGED <<pos, stack, snap, undone, Options, optLog, TT, ttLog>>

NextNuma == bindThisThread

SpecNuma == InitNuma /\ [][NextNuma]_vars

\* C21: when binding is active, the worker with index N is bound to the node
\* N modulo the number of nodes
C21_BoundModNodes ==
  \A w \in lastOp.called :
    lastOp.bound[w] # NotBound => lastOp.bound[w] = w % lastOp.nodes

\* the first entries of the Windows table, cores / nodes for each node in turn
WinCoreSlots(st) == st.nodes * (st.cores \div st.nodes)

\* C21 (amended): a worker is bound only if its index is within the table
\* threadToNode and only to the node the table gives it.  The table has one
\* entry per physical core first, the cores of a node next to each other
\* (on Windows cores / nodes entries for node 0, then for node 1, ...; on
\* Linux numCores entries per node, nodes with more cores first), and the
\* remaining hardware threads after them, dealt round the nodes.
C21_BoundByTable ==
  \A w \in lastOp.called :
    /\ lastOp.bound[w] # NotBound => w < Len(lastOp.threadToNode)
    /\ (lastOp.build = "linux" /\ w < Len(lastOp.threadToNode)) => lastOp.bound[w] # NotBound
    /\ (lastOp.build = "windows" /\ lastOp.bound[w] # NotBound) =>
         /\ w < WinCoreSlots(lastOp) => lastOp.bound[w] = w \div (lastOp.cores \div lastOp.nodes)
         /\ w >= WinCoreSlots(lastOp) =>
              /\ w - WinCoreSlots(lastOp) < lastOp.threads - lastOp.cores
              /\ lastOp.bound[w] = (w - WinCoreSlots(lastOp)) % lastOp.nodes
    /\ (lastOp.build = "linux" /\ lastOp.bound[w] # NotBound) =>
         \E k \in 1..Len(lastOp.sorted) :
           /\ lastOp.sorted[k].node = lastOp.bound[w]
           /\ \A j \in 1..Len(lastOp.sorted) :
                j < k => lastOp.sorted[j].numCores >= lastOp.sorted[k].numCores
           /\ w < Len(LinuxCoreEntries(lastOp.sorted, 1)) =>
                /\ w >= Len(LinuxCoreEntries(SubSeq(lastOp.sorted, 1, k - 1), 1))
                /\ w < Len(LinuxCoreEntries(SubSeq(lastOp.sorted, 1, k), 1))
           /\ w >= Len(LinuxCoreEntries(lastOp.sorted, 1)) =>
                lastOp.sorted[k].numThreads > lastOp.sorted[k].numCores

\* the second worker of a Windows machine with two nodes and four cores is
\* bound to node 0
C21_Witness ==
  /\ lastOp.op = "bind"
  /\ lastOp.build = "windows"
  /\ lastOp.nodes = 2
  /\ lastOp.cores = 4
  /\ 1 \in lastOp.called
  /\ lastOp.bound[1] = 0

(***************************************************************************)
(* Castling: positions with castling rights in which squares of the king's *)
(* way are, or come to be, attacked.                                       *)
(***************************************************************************)
\* a pawn attacks f1: only the queen side is open to the king: 4k3/8/8/8/8/8/6p1/R3K2R w KQ - 0 1
FenCastleAttacked ==
  <<"4", "k", "3", "/", "8", "/", "8", "/", "8", "/", "8", "/", "8", "/",
    "6", "p", "1", "/", "R", "3", "K", "2", "R", " ", "w", " ", "K", "Q",
    " ", "-", " ", "0", " ", "1">>

\* a pawn attacks b1, which the rook crosses and the king does not: 4k3/8/8/8/8/8/p7/R3K2R w KQ - 0 1
FenCastleRookAttacked ==
  <<"4", "k", "3", "/", "8", "/", "8", "/", "8", "/", "8", "/", "8", "/",
    "p", "7", "/", "R", "3", "K", "2", "R", " ", "w", " ", "K", "Q", " ",
    "-", " ", "0", " ", "1">>

\* black rooks that can take aim at the squares the white king crosses: 2r2rk1/8/8/8/8/8/8/R3K2R b KQ - 0 1
FenCastleFiles ==
  <<"2", "r", "2", "r", "k", "1", "/", "8", "/", "8", "/", "8", "/", "8",
    "/", "8", "/", "8", "/", "R", "3", "K", "2", "R", " ", "b", " ", "K",
    "Q", " ", "-", " ", "0", " ", "1">>

\* chess960, a pawn attacks e1 and g1 on the way of the king from c1: 1rk3r1/8/8/8/8/8/5p2/1RK3R1 w GBgb - 0 1
Fen960Attacked ==
  <<"1", "r", "k", "3", "r", "1", "/", "8", "/", "8", "/", "8", "/", "8",
    "/", "8", "/", "5", "p", "2", "/", "1", "R", "K", "3", "R", "1", " ",
    "w", " ", "G", "B", "g", "b", " ", "-", " ", "0", " ", "1">>

\* atomic, the kings touch: f1 and d1 are next to the black king, g1 is attacked: 6r1/8/8/8/8/8/4k3/R3K2R w KQ - 0 1
FenAtomicCastle ==
  <<"6", "r", "1", "/", "8", "/", "8", "/", "8", "/", "8", "/", "8", "/",
    "4", "k", "3", "/", "R", "3", "K", "2", "R", " ", "w", " ", "K", "Q",
    " ", "-", " ", "0", " ", "1">>

\* atomic, the kings apart and d1 attacked: 3r2k1/8/8/8/8/8/8/R3K2R w KQ - 0 1
FenAtomicCastleFar ==
  <<"3", "r", "2", "k", "1", "/", "8", "/", "8", "/", "8", "/", "8", "/",
    "8", "/", "8", "/", "R", "3", "K", "2", "R", " ", "w", " ", "K", "Q",
    " ", "-", " ", "0", " ", "1">>

\* antichess, castling rights and f1 attacked: 5r2/8/8/8/8/8/8/R3K2R w KQ - 0 1
FenAntiCastle ==
  <<"5", "r", "2", "/", "8", "/", "8", "/", "8", "/", "8", "/", "8", "/",
    "8", "/", "R", "3", "K", "2", "R", " ", "w", " ", "K", "Q", " ", "-",
    " ", "0", " ", "1">>

CastleInputs ==
  {[fen |-> FenCastle, v |-> CHESS_VARIANT, chess960 |-> FALSE],
   [fen |-> FenCastleAttacked, v |-> CHESS_VARIANT, chess960 |-> FALSE],
   [fen |-> FenCastleRookAttacked, v |-> CHESS_VARIANT, chess960 |-> FALSE],
   [fen |-> FenCastleFiles, v |-> CHESS_VARIANT, chess960 |-> FALSE],
   [fen |-> FenCastleFiles, v |-> THREECHECK_VARIANT, chess960 |-> FALSE],
   [fen |-> Fen960Written, v |-> CHESS_VARIANT, chess960 |-> TRUE],
   [fen |-> Fen960Attacked, v |-> CHESS_VARIANT, chess960 |-> TRUE],
   [fen |-> FenAtomicCastle, v |-> ATOMIC_VARIANT, chess960 |-> FALSE],
   [fen |-> FenAtomicCastleFar, v |-> ATOMIC_VARIANT, chess960 |-> FALSE],
   [fen |-> FenAntiCastle, v |-> ANTI_VARIANT, chess960 |-> FALSE]}

InitCastle ==
  /\ \E f \in CastleInputs : pos = Position_set(IdlePos, f.fen, f.chess960, f.v)
  /\ stack = <<>>
  /\ snap = <<>>
  /\ lastOp = NoOp
  /\ undone = IdlePos
  /\ Options = InitOptions
  /\ optLog = NoOptLog
  /\ TT = InitTT(0)
  /\ ttLog = NoTTLog

NextCastle == DoMove \/ UndoMove

SpecCastle == InitCastle /\ [][NextCastle]_vars

\* the squares of a rank strictly between two of its squares
RankBetween(a, b) == {s \in Squares : (a < s /\ s < b) \/ (b < s /\ s < a)}

\* the squares the king crosses and the one it lands on
KingWay(kfrom, kto) == (RankBetween(kfrom, kto) \cup {kto}) \ {kfrom}

\* where the king lands: the g-file towards a rook on its right, else the c-file
KingLanding(q, kfrom, rfrom) ==
  8 * (kfrom \div 8) + (IF rfrom > kfrom THEN 6 ELSE 2)

AttackedBy(q, s, c) ==
  \E a \in Squares :
    /\ q.board[a] # NO_PIECE
    /\ color_of(q.board[a]) = c
    /\ s \in AttacksFrom(q.board[a], a, BoardOcc(q))

NextToKing(q, s, c) == \E k \in KingSquares(q, c) : s \in KingAttacks(k)

CastlingSound(q, kfrom, rfrom) ==
  /\ RankBetween(kfrom, rfrom) \cap BoardOcc(q) = {}
  /\ \A s \in KingWay(kfrom, KingLanding(q, kfrom, rfrom)) :
       \/ ~AttackedBy(q, s, Flip(q.sideToMove))
       \/ q.var = ANTI_VARIANT
       \/ q.var = ATOMIC_VARIANT /\ NextToKing(q, s, Flip(q.sideToMove))

FenEpNoAttacker ==
  <<"4", "k", "3", "/", "8", "/", "8", "/", "8", "/", "4", "P", "3", "/",
    "8", "/", "8", "/", "4", "K", "3", " ", "b", " ", "-", " ", "e", "3",
    " ", "0", " ", "1">>

\* chess, a black double push next to a white pawn: 4k3/3p4/8/4P3/8/8/8/4K3 b - - 0 1
FenEpBlack ==
  <<"4", "k", "3", "/", "3", "p", "4", "/", "8", "/", "4", "P", "3", "/",
    "8", "/", "8", "/", "8", "/", "4", "K", "3", " ", "b", " ", "-", " ",
    "-", " ", "0", " ", "1">>

\* chess, a double push that no pawn can capture: 4k3/8/8/8/8/8/4P3/4K3 w - - 0 1
FenEpAlone ==
  <<"4", "k", "3", "/", "8", "/", "8", "/", "8", "/", "8", "/", "8", "/",
    "4", "P", "3", "/", "4", "K", "3", " ", "w", " ", "-", " ", "-", " ",
    "0", " ", "1">>

\* chess, an en passant field that can be played: 4k3/8/8/8/4Pp2/8/8/4K3 b - e3 0 1
FenEpGiven ==
  <<"4", "k", "3", "/", "8", "/", "8", "/", "8", "/", "4", "P", "p", "2",
    "/", "8", "/", "8", "/", "4", "K", "3", " ", "b", " ", "-", " ", "e",
    "3", " ", "0", " ", "1">>

\* atomic, a double push past a square next to the enemy king: 8/8/8/8/5p2/8/3kP3/7K w - - 0 1
FenEpAtomicKing ==
  <<"8", "/", "8", "/", "8", "/", "8", "/", "5", "p", "2", "/", "8", "/",
    "3", "k", "P", "3", "/", "7", "K", " ", "w", " ", "-", " ", "-", " ",
    "0", " ", "1">>

\* atomic, an en passant field next to the capturer's king: 8/8/8/8/4Pp2/8/3k4/7K b - e3 0 1
FenEpAtomicGiven ==
  <<"8", "/", "8", "/", "8", "/", "8", "/", "4", "P", "p", "2", "/", "8",
    "/", "3", "k", "4", "/", "7", "K", " ", "b", " ", "-", " ", "e", "3",
    " ", "0", " ", "1">>

\* atomic, a double push that can be captured: 7k/8/8/8/5p2/8/4P3/K7 w - - 0 1
FenEpAtomic ==
  <<"7", "k", "/", "8", "/", "8", "/", "8", "/", "5", "p", "2", "/", "8",
    "/", "4", "P", "3", "/", "K", "7", " ", "w", " ", "-", " ", "-", " ",
    "0", " ", "1">>

\* antichess, a double push that can be captured: 8/8/8/8/5p2/8/4P3/8 w - - 0 1
FenEpAnti ==
  <<"8", "/", "8", "/", "8", "/", "8", "/", "5", "p", "2", "/", "8", "/",
    "4", "P", "3", "/", "8", " ", "w", " ", "-", " ", "-", " ", "0", " ",
    "1">>

\* crazyhouse, a double push that can be captured and a pawn in hand: 4k3/8/8/8/3p4/8/4P3/4K3[P] w - - 0 1
FenEpHouse ==
  <<"4", "k", "3", "/", "8", "/", "8", "/", "8", "/", "3", "p", "4", "/",
    "8", "/", "4", "P", "3", "/", "4", "K", "3", "[", "P", "]", " ", "w",
    " ", "-", " ", "-", " ", "0", " ", "1">>

EpInputs ==
  {[fen |-> FenDoublePush, v |-> CHESS_VARIANT, chess960 |-> FALSE],
   [fen |-> FenPinnedEp, v |-> CHESS_VARIANT, chess960 |-> FALSE],
   [fen |-> FenEpNoAttacker, v |-> CHESS_VARIANT, chess960 |-> FALSE],
   [fen |-> FenEpBlack, v |-> CHESS_VARIANT, chess960 |-> FALSE],
   [fen |-> FenEpAlone, v |-> CHESS_VARIANT, chess960 |-> FALSE],
   [fen |-> FenEpGiven, v |-> CHESS_VARIANT, chess960 |-> FALSE],
   [fen |-> FenEpGiven, v |-> THREECHECK_VARIANT, chess960 |-> FALSE],
   [fen |-> FenEpAtomicKing, v |-> ATOMIC_VARIANT, chess960 |-> FALSE],
   [fen |-> FenEpAtomicGiven, v |-> ATOMIC_VARIANT, chess960 |-> FALSE],
   [fen |-> FenEpAtomic, v |-> ATOMIC_VARIANT, chess960 |-> FALSE],
   [fen |-> FenEpAnti, v |-> ANTI_VARIANT, chess960 |-> FALSE],
   [fen |-> FenEpHouse, v |-> CRAZYHOUSE_VARIANT, chess960 |-> FALSE]}

InitEp ==
  /\ \E f \in EpInputs :
       /\ pos = Position_set(IdlePos, f.fen, f.chess960, f.v)
       /\ lastOp = [NoOp EXCEPT !.op = "set", !.fen = f.fen]
  /\ stack = <<>>
  /\ snap = <<>>
  /\ undone = IdlePos
  /\ Options = InitOptions
  /\ optLog = NoOptLog
  /\ TT = InitTT(0)
  /\ ttLog = NoTTLog

NextEp == DoMove \/ UndoMove

SpecEp == InitEp /\ [][NextEp]_vars

\* the side that made the last move
Mover(q) == Flip(q.sideToMove)

\* the square a pawn of the mover reaches by a double push over ep
InFrontOf(q, ep) == ep + pawn_push(Mover(q))

\* the pawns of the side to move that stand beside the pushed pawn, on a
\* neighbouring file
Capturers(q, ep) ==
  {s \in Squares :
     /\ piece_on(q, s) = make_piece(q.sideToMove, PAWN)
     /\ rank_of(s) = rank_of(InFrontOf(q, ep))
     /\ file_of(s) - file_of(ep) \in {-1, 1}}

EpTerms == UNION {Zobrist_enpassant(f) : f \in 0..7}

\* C24: after Position::set and after every do_move, an epSquare other than
\* SQ_NONE has a pawn of the side that just moved directly in front of it and
\* at least one pawn of the side to move attacking it; otherwise epSquare is
\* SQ_NONE and the key holds no en passant term
C24_EpSquare ==
  lastOp.op \in {"set", "do"} =>
    IF St(pos).epSquare # SQ_NONE
    THEN /\ piece_on(pos, InFrontOf(pos, St(pos).epSquare)) = make_piece(Mover(pos), PAWN)
         /\ Capturers(pos, St(pos).epSquare) # {}
    ELSE St(pos).key \cap EpTerms = {}

\* a double push has just set the en passant square
C24_Witness ==
  /\ lastOp.op = "do"
  /\ St(pos).epSquare # SQ_NONE
  /\ St(pos).epSquare = from_sq(lastOp.m) + pawn_push(Mover(pos))

(***************************************************************************)
(* The piece lists: pieceList, index, pieceCount against board and the     *)
(* bitboards (the "Pieces" and "Index" tests of pos_is_ok).                *)
(***************************************************************************)
SquaresOf(q, pc) == {s \in Squares : q.board[s] = pc}

ListedSquares(q, pc) == {q.pieceList[pc][i] : i \in 0..(q.pieceCount[pc] - 1)}

\* C25: after Position::set and after any sequence of do_move and undo_move,
\* for every piece pc the first pieceCount[pc] entries of pieceList[pc] are
\* exactly the squares where board[] holds pc, each listed once, index[] maps
\* each of them to its place in the list, and pieceCount[pc] is the popcount
\* of the bitboard of that colour and type
C25_PieceLists ==
  \A pc \in Pieces :
    /\ ListedSquares(pos, pc) = SquaresOf(pos, pc)
    /\ Cardinality(SquaresOf(pos, pc)) = pos.pieceCount[pc]
    /\ \A i \in 0..(pos.pieceCount[pc] - 1) : pos.index[pos.pieceList[pc][i]] = i
    /\ pos.pieceCount[pc] =
         Cardinality(pieces_cpt(pos, color_of(pc), type_of_piece(pc)))

\* a move has been taken back and left a piece list in another order than
\* it had before the move was made
C25_Witness ==
  /\ lastOp.op = "undo"
  /\ pos.board = undone.board
  /\ \E pc \in Pieces : pos.pieceList[pc] # undone.pieceList[pc]

(***************************************************************************)
(* evaluate.cpp: the last steps of Evaluation::value, the view of the side *)
(* to move, the tempo and the damping by the rule-50 counter.              *)
(***************************************************************************)
\* crazyhouse, ninety-nine plies without a capture or pawn move: 4k3/8/8/8/8/8/8/R3K3[N] w - - 99 60
FenDampHouse ==
  <<"4", "k", "3", "/", "8", "/", "8", "/", "8", "/", "8", "/", "8", "/",
    "8", "/", "R", "3", "K", "3", "[", "N", "]", " ", "w", " ", "-", " ",
    "-", " ", "9", "9", " ", "6", "0">>

\* chess and the other variants, ninety-eight such plies: 4k3/8/8/8/8/8/8/R3K3 w - - 98 60
FenDampChess ==
  <<"4", "k", "3", "/", "8", "/", "8", "/", "8", "/", "8", "/", "8", "/",
    "8", "/", "R", "3", "K", "3", " ", "w", " ", "-", " ", "-", " ", "9",
    "8", " ", "6", "0">>

\* a position in the middle of the count, with a pawn move to reset it: 4k3/8/8/8/8/8/4P3/R3K3 w - - 40 30
FenDampFresh ==
  <<"4", "k", "3", "/", "8", "/", "8", "/", "8", "/", "8", "/", "8", "/",
    "4", "P", "3", "/", "R", "3", "K", "3", " ", "w", " ", "-", " ", "-",
    " ", "4", "0", " ", "3", "0">>

DampInputs ==
  {[fen |-> FenDampHouse, v |-> CRAZYHOUSE_VARIANT],
   [fen |-> FenDampChess, v |-> CRAZYHOUSE_VARIANT],
   [fen |-> FenDampChess, v |-> CHESS_VARIANT],
   [fen |-> FenDampChess, v |-> ATOMIC_VARIANT],
   [fen |-> FenDampChess, v |-> THREECHECK_VARIANT],
   [fen |-> FenDampChess, v |-> ANTI_VARIANT],
   [fen |-> FenDampFresh, v |-> CHESS_VARIANT],
   [fen |-> FenDampFresh, v |-> CRAZYHOUSE_VARIANT]}

\* the values of winnable(score) after the grain step, from White's view
GrainValues == {16 * k : k \in (-MaxGrain)..MaxGrain}

\* v = (pos.side_to_move() == WHITE ? v : -v) + Tempo
SideToMoveView(p, v) == (IF p.sideToMove = WHITE THEN v ELSE -v) + Tempo

\* v = v * (100 - pos.rule50_count()) / 100, with the division of C++
Damp(p, v) == CDiv(v * (100 - St(p).rule50), 100)

NoEval == [op |-> "none", m |-> MOVE_NONE, n |-> 0, v |-> VALUE_ZERO,
           value |-> VALUE_ZERO]

InitDamp ==
  /\ \E f \in DampInputs : pos = Position_set(IdlePos, f.fen, FALSE, f.v)
  /\ stack = <<>>
  /\ snap = <<>>
  /\ lastOp = NoEval
  /\ undone = IdlePos
  /\ Options = InitOptions
  /\ optLog = NoOptLog
  /\ TT = InitTT(0)
  /\ ttLog = NoTTLog

\* Evaluation::value on a position that is not in check, not ended by its
\* variant's rule and not a draw for the search that calls it; the value
\* before the last three steps is an input
Evaluate ==
  /\ lastOp.op # "eval"
  /\ checkers(pos) = {}
  /\ ~is_variant_end(pos)
  /\ ~is_draw(pos, Len(stack))
  /\ \E g \in GrainValues :
       lastOp' = [NoEval EXCEPT !.op = "eval", !.n = lastOp.n,
                                !.v = SideToMoveView(pos, g),
                                !.value = Damp(pos, SideToMoveView(pos, g))]
  /\ UNCHANGED <<pos, stack, snap, undone, Options, optLog, TT, ttLog>>

NextDamp == DoMove \/ UndoMove \/ Evaluate

SpecDamp == InitDamp /\ [][NextDamp]_vars

Magnitude(v) == IF v < 0 THEN -v ELSE v

\* C26: for every position evaluate is called on, in every variant and for
\* every value of the rule-50 counter there, the damping step
\* v * (100 - rule50) / 100 never changes the sign of the value and never
\* increases its magnitude
C26_DampTowardZero ==
  lastOp.op = "eval" =>
    /\ lastOp.v > 0 => lastOp.value >= 0
    /\ lastOp.v < 0 => lastOp.value <= 0
    /\ Magnitude(lastOp.value) <= Magnitude(lastOp.v)

(***************************************************************************)
(* Crazyhouse: the hands over do_move and undo_move.                       *)
(***************************************************************************)
\* crazyhouse, a pawn that promotes with or without a capture, next to a rook that can take the new piece: r3k3/1P6/8/8/8/8/8/4K3[Qn] w - - 0 1
FenHousePromo ==
  <<"r", "3", "k", "3", "/", "1", "P", "6", "/", "8", "/", "8", "/", "8",
    "/", "8", "/", "8", "/", "4", "K", "3", "[", "Q", "n", "]", " ", "w",
    " ", "-", " ", "-", " ", "0", " ", "1">>

HouseInputs ==
  {FenHouseCheck, FenHouseDrop, FenHousePromo, FenEpHouse, FenDoublePush, FenCastle}

InitHouse ==
  /\ \E f \in HouseInputs :
       /\ pos = Position_set(IdlePos, f, FALSE, CRAZYHOUSE_VARIANT)
       /\ lastOp = [NoOp EXCEPT !.op = "set", !.fen = f]
  /\ stack = <<>>
  /\ snap = <<>>
  /\ undone = IdlePos
  /\ Options = InitOptions
  /\ optLog = NoOptLog
  /\ TT = InitTT(0)
  /\ ttLog = NoTTLog

NextHouse == DoMove \/ UndoMove

SpecHouse == InitHouse /\ [][NextHouse]_vars

HandTypes == {PAWN, KNIGHT, BISHOP, ROOK, QUEEN, KING}

RECURSIVE SumOver(_, _)
SumOver(f, S) ==
  IF S = {} THEN 0
  ELSE f[CHOOSE x \in S : TRUE] + SumOver(f, S \ {CHOOSE x \in S : TRUE})

\* the pieces a side holds in hand, and all the pieces of the game
InHand(q, c) == SumOver(q.pieceCountInHand[c], HandTypes)

BoardCount(q) == Cardinality({s \in Squares : q.board[s] # NO_PIECE})

PiecesInGame(q) == BoardCount(q) + InHand(q, WHITE) + InHand(q, BLACK)

\* the piece move m takes off the board of b, NO_PIECE if none
TakenBy(b, m) ==
  IF type_of(m) = ENPASSANT THEN make_piece(Flip(b.sideToMove), PAWN)
  ELSE IF type_of(m) \in {CASTLING, DROP} THEN NO_PIECE
  ELSE b.board[to_sq(m)]

\* the square the taken piece stands on
TakenOn(b, m) ==
  IF type_of(m) = ENPASSANT THEN to_sq(m) - pawn_push(b.sideToMove) ELSE to_sq(m)

\* the type move m adds to the hand of the side to move of b (1),
\* or removes from it (-1)
HandChange(b, m, pt) ==
  IF type_of(m) = DROP
  THEN (IF pt = type_of_piece(dropped_piece(m)) THEN -1 ELSE 0)
  ELSE IF TakenBy(b, m) = NO_PIECE THEN 0
  ELSE IF TakenOn(b, m) \in b.promotedPieces
  THEN (IF pt = PAWN THEN 1 ELSE 0)
  ELSE (IF pt = type_of_piece(TakenBy(b, m)) THEN 1 ELSE 0)

HandsAfter(b, m) ==
  [c \in Colors |->
     [pt \in 0..7 |->
        IF c # b.sideToMove THEN b.pieceCountInHand[c][pt]
        ELSE IF pt = ALL_PIECES
        THEN b.pieceCountInHand[c][pt] + SumOver([t \in HandTypes |-> HandChange(b, m, t)], HandTypes)
        ELSE IF pt \in HandTypes THEN b.pieceCountInHand[c][pt] + HandChange(b, m, pt)
        ELSE b.pieceCountInHand[c][pt]]]

\* C27: in Crazyhouse every capture adds exactly one piece to the capturing
\* side's hand (the captured type, a pawn for a promoted piece), every drop
\* removes exactly one piece of the dropped type from the dropping side's
\* hand, the pieces on the board and in both hands together are as many
\* after do_move as before, and undo_move restores the hand counts
C27_HandCounts ==
  /\ lastOp.op = "do" =>
       /\ pos.pieceCountInHand = HandsAfter(snap[Len(snap)], lastOp.m)
       /\ PiecesInGame(pos) = PiecesInGame(snap[Len(snap)])
  /\ lastOp.op = "undo" => pos.pieceCountInHand = undone.pieceCountInHand

\* a promoted piece has been captured and a pawn has gone to the hand
C27_Witness ==
  /\ lastOp.op = "do"
  /\ TakenBy(snap[Len(snap)], lastOp.m) # NO_PIECE
  /\ type_of_piece(TakenBy(snap[Len(snap)], lastOp.m)) # PAWN
  /\ TakenOn(snap[Len(snap)], lastOp.m) \in snap[Len(snap)].promotedPieces
  /\ pos.pieceCountInHand[Flip(pos.sideToMove)][PAWN] = 1

(***************************************************************************)
(* Repetition detection and null moves.                                    *)
(***************************************************************************)
\* the plies made since the last null move of the line, that move included
\* as ply 0: the state it created is that many plies back
SinceNull ==
  Len(stack) - (CHOOSE j \in 1..Len(stack) :
                  /\ stack[j] = MOVE_NULL
                  /\ \A h \in (j + 1)..Len(stack) : stack[h] # MOVE_NULL)

\* how far back do_move, has_game_cycle and has_repeated look from the
\* current state: the farthest ancestor whose key or repetition they read
DoMoveReach(p) == {i \in 4..RepetitionEnd(p) : i % 2 = 0}

CycleReach(p) == {i \in 3..CycleEnd(p) : i % 2 = 1}

RepeatedReach(p) == {b \in 0..(CycleEnd(p) - 4) : TRUE}

\* the states before the last null move that hold the key of the current
\* state, as plies back
EqualBeforeNull ==
  {i \in (SinceNull + 1)..(Len(pos.st) - 1) : pos.st[Len(pos.st) - i].key = St(pos).key}

Dist(r) == IF r < 0 THEN -r ELSE r

\* C29: repetition detection never matches across a null move: right after
\* do_null_move the repetition of the state is 0, and every later do_move,
\* has_repeated and has_game_cycle reads only states created at or after
\* that null move
C29_NoMatchAcrossNull ==
  ~NoNullMoves =>
    /\ lastOp.op = "donull" => St(pos).repetition = 0
    /\ Dist(St(pos).repetition) <= SinceNull
    /\ \A i \in DoMoveReach(pos) \cup CycleReach(pos) \cup RepeatedReach(pos) :
         i <= SinceNull
    /\ has_repeated(pos) =>
         \E b \in 0..SinceNull :
           /\ pos.st[Len(pos.st) - b].repetition # 0
           /\ b + Dist(pos.st[Len(pos.st) - b].repetition) <= SinceNull

\* a move has brought back a position that stood before the last null move,
\* within the reach of the fifty-move counter, and no repetition is noted
C29_Witness ==
  /\ ~NoNullMoves
  /\ lastOp.op = "do"
  /\ \E i \in EqualBeforeNull : i % 2 = 0 /\ i >= 4 /\ i <= St(pos).rule50
  /\ St(pos).repetition = 0

(***************************************************************************)
(* Three-Check: the check counters along the moves of the game.            *)
(***************************************************************************)
\* three-check, either side one check short of three: 4k2r/8/8/8/8/8/8/R5K1 w - - 0 1 +2+2
FenChecksTwoTwo ==
  <<"4", "k", "2", "r", "/", "8", "/", "8", "/", "8", "/", "8", "/", "8",
    "/", "8", "/", "R", "5", "K", "1", " ", "w", " ", "-", " ", "-", " ",
    "0", " ", "1", " ", "+", "2", "+", "2">>

\* three-check, White one check short of three: 4k2r/8/8/8/8/8/8/R5K1 w - - 0 1 +2+1
FenChecksTwoOne ==
  <<"4", "k", "2", "r", "/", "8", "/", "8", "/", "8", "/", "8", "/", "8",
    "/", "8", "/", "R", "5", "K", "1", " ", "w", " ", "-", " ", "-", " ",
    "0", " ", "1", " ", "+", "2", "+", "1">>

\* three-check, Black to move and one check short of three: 4k2r/8/8/8/8/8/8/R5K1 b - - 0 1 +0+2
FenChecksBlack ==
  <<"4", "k", "2", "r", "/", "8", "/", "8", "/", "8", "/", "8", "/", "8",
    "/", "8", "/", "R", "5", "K", "1", " ", "b", " ", "-", " ", "-", " ",
    "0", " ", "1", " ", "+", "0", "+", "2">>

\* three-check, White has given three checks: 4k2r/8/8/8/8/8/8/R5K1 b - - 0 1 +3+0
FenChecksDone ==
  <<"4", "k", "2", "r", "/", "8", "/", "8", "/", "8", "/", "8", "/", "8",
    "/", "8", "/", "R", "5", "K", "1", " ", "b", " ", "-", " ", "-", " ",
    "0", " ", "1", " ", "+", "3", "+", "0">>

\* three-check, Black to move has given three checks: 4k2r/8/8/8/8/8/8/R5K1 b - - 0 1 +1+3
FenChecksDoneBlack ==
  <<"4", "k", "2", "r", "/", "8", "/", "8", "/", "8", "/", "8", "/", "8",
    "/", "8", "/", "R", "5", "K", "1", " ", "b", " ", "-", " ", "-", " ",
    "0", " ", "1", " ", "+", "1", "+", "3">>

\* three-check, the counters given as checks that remain: 4k2r/8/8/8/8/8/8/R5K1 w - - 1+2 0 1
FenChecksRemaining ==
  <<"4", "k", "2", "r", "/", "8", "/", "8", "/", "8", "/", "8", "/", "8",
    "/", "8", "/", "R", "5", "K", "1", " ", "w", " ", "-", " ", "-", " ",
    "1", "+", "2", " ", "0", " ", "1">>

\* three-check, a counter field above three: 4k2r/8/8/8/8/8/8/R5K1 w - - 0 1 +2+7
FenChecksOver ==
  <<"4", "k", "2", "r", "/", "8", "/", "8", "/", "8", "/", "8", "/", "8",
    "/", "8", "/", "R", "5", "K", "1", " ", "w", " ", "-", " ", "-", " ",
    "0", " ", "1", " ", "+", "2", "+", "7">>

CheckInputs ==
  {FenChecksTwoTwo, FenChecksTwoOne, FenChecksBlack, FenChecksDone,
   FenChecksDoneBlack, FenChecksRemaining, FenChecksOver, FenThreeCheck}

InitCheck ==
  /\ \E f \in CheckInputs :
       /\ pos = Position_set(IdlePos, f, FALSE, THREECHECK_VARIANT)
       /\ lastOp = [NoOp EXCEPT !.op = "set", !.fen = f]
  /\ stack = <<>>
  /\ snap = <<>>
  /\ undone = IdlePos
  /\ Options = InitOptions
  /\ optLog = NoOptLog
  /\ TT = InitTT(0)
  /\ ttLog = NoTTLog

NextCheck == DoMove \/ UndoMove

SpecCheck == InitCheck /\ [][NextCheck]_vars

\* C30: in Three-Check, along any line of moves of generate<LEGAL> from a
\* position whose check counters are at most 3, no counter exceeds 3: once a
\* counter is 3 the position is ended by the variant's rule and
\* generate<LEGAL> returns no move, so the increment of do_move cannot run
\* again
C30_ChecksBounded ==
  is_three_check(pos) =>
    /\ \A c \in Colors : St(pos).checksGiven[c] < CHECKS_NB
    /\ (\E c \in Colors : St(pos).checksGiven[c] = CHECKS_3) =>
         (is_variant_end(pos) /\ generate_LEGAL(pos) = {})

\* a move has just given the third check
C30_Witness ==
  /\ lastOp.op = "do"
  /\ is_three_check(pos)
  /\ St(pos).checksGiven[Flip(pos.sideToMove)] = CHECKS_3
  /\ St(snap[Len(snap)]).checksGiven[Flip(pos.sideToMove)] = 2
  /\ checkers(pos) # {}

=============================================================================
